---- MODULE Spec2Model ----
(***************************************************************************)
(* servinel daemon: the state store (daemon/state.rs), the process         *)
(* supervisor (daemon/supervisor.rs) and the request handlers              *)
(* (daemon/server.rs, ipc/server.rs), as one state machine.                *)
(*                                                                         *)
(* Every step is one lock-delimited section of the code: a state-store     *)
(* read or write happens under the RwLock guard and is one step; the       *)
(* supervisor table is a tokio Mutex whose holder is the variable          *)
(* runtimes_lock.  Steps of different connection tasks and of the tick     *)
(* task interleave freely, as tokio tasks do at every await.               *)
(***************************************************************************)
EXTENDS Integers, Sequences, FiniteSets, TLC

VARIABLES
    state,          \* DaemonState behind Arc<RwLock<..>>
    runtimes,       \* Supervisor.runtimes: (app, service) -> child id
    runtimes_lock,  \* holder of the runtimes Mutex: 0 = free, else a handler
    children,       \* the spawned processes not yet reaped: pid -> process
    next_pid,       \* the pid the next spawned child gets
    conn,           \* the connection tasks (handle_connection), one per handler
    tick,           \* the tick task (Daemon::tick_loop / Supervisor::refresh)
    call,           \* the last read-only Daemon call made and what it returned
    client,         \* the CLI process: where it is in ensure_daemon or stream_logs
    locks,          \* the daemon's locks on their own: holders, queues, tasks
    log_tx,         \* the broadcast channel of each spawned child: pid -> entries sent
    session,        \* the Logs sessions (handle_connection, stream_logs)
    log_buffer,     \* a LogBuffer on its own
    pushed          \* the entries pushed into log_buffer so far

\* the variables the supervisor calls and the tick leave alone
query_vars == <<call, client, locks>>
log_vars == <<log_tx, session, log_buffer, pushed>>

vars ==
    <<state, runtimes, runtimes_lock, children, next_pid, conn, tick,
      query_vars, log_vars>>

----------------------------------------------------------------------------
(* Bounds of the model *)

\* children the OS lets the supervisor spawn before spawn() starts failing
MaxChildren == 2

\* the connection tasks: serve() spawns one per accepted connection
Handlers == {1, 2}

\* output lines the children write, all children and streams together
MaxLines == 2

\* the largest capacity of the LogBuffers tried on their own
MaxCapacity == 3

\* the most entries pushed into a LogBuffer on its own
MaxPushes == 5

\* Option<String> and Option<SystemTime>: the absent value
None == "None"

\* Option<u32> and Option<i32>: the absent value and Some(x)
Nil == <<>>
Some(x) == <<x>>

----------------------------------------------------------------------------
(* Inputs *)

\* service names the compose files declare
ServiceNames == {"api", "worker", "store"}

\* exit codes a child can exit with by itself
ExitCodes == {1}

\* the compose file the clients of the supervisor sessions bring up
Files == {"web.yaml"}

\* compose files on disk that load_compose accepts
AllFiles == {"web.yaml", "db.yaml"}

\* compose.rs load_compose: the validated ComposeFile read from a path
load_compose(file) ==
    IF file = "db.yaml"
    THEN [app_name |-> "db",
          services |-> <<"store", "api">>,
          profiles |-> ("backend" :> <<"store">>)]
    ELSE [app_name |-> "web",
          services |-> <<"api", "worker">>,
          profiles |-> ("backend" :> <<"api">>)]

\* protocol.rs ServiceSelector values the clients send
All == [tag |-> "All"]
Service(name) == [tag |-> "Service", name |-> name]
Services(names) == [tag |-> "Services", names |-> names]
Profile(name) == [tag |-> "Profile", name |-> name]
NoSelector == [tag |-> "none"]

\* the selectors of the requests that reach the supervisor
Selectors ==
    {All, Service("api"), Service("worker"), Services(<<"api", "ghost">>),
     Profile("backend")}

\* the app argument of a request: Option<String>
AppArgs == {None, "web"}

\* protocol.rs Request, the variants that change the daemon
Requests ==
    [kind : {"Up"}, file : Files, profile : {None, "backend", "nope"}]
    \cup [kind : {"Start"}, file : Files \cup {None}, app : AppArgs, selector : Selectors]
    \cup [kind : {"Stop", "Restart"}, app : AppArgs, selector : Selectors]

----------------------------------------------------------------------------
(* Sequences *)

Range(s) == {s[i] : i \in DOMAIN s}

\* all orders in which a HashMap over the keys S can iterate
Permutations_of(S) ==
    {p \in [1..Cardinality(S) -> S] : \A x \in S : \E i \in DOMAIN p : p[i] = x}

----------------------------------------------------------------------------
(* State store: daemon/state.rs *)

\* state.rs ServiceStatus
ServiceStatus == {"Starting", "Running", "Stopped", "Unhealthy", "Exited"}

\* state.rs DaemonState::default.  The sampled numbers (ServiceMetrics, the
\* system_* fields) are left out of the state: no branch of the supervisor
\* or of the handlers reads them.
DaemonState_default == [apps |-> <<>>]

has_service(st, app, service) ==
    /\ app \in DOMAIN st.apps
    /\ service \in DOMAIN st.apps[app].services

\* the service_state that `apps.get_mut(app)` and `services.get_mut(service)`
\* find
get_service(st, app, service) == st.apps[app].services[service]

\* the `if let Some(app_state) .. if let Some(service_state)` of every
\* mutator: service_state becomes new when the app and the service exist
with_service(st, app, service, new) ==
    IF has_service(st, app, service)
    THEN [st EXCEPT !.apps[app].services[service] = new]
    ELSE st

\* state.rs LOG_BUFFER_CAPACITY
LOG_BUFFER_CAPACITY == 1000

\* logs.rs LogBuffer::new
LogBuffer_new(capacity) == [entries |-> <<>>, capacity |-> capacity]

\* VecDeque::pop_front: of an empty queue it removes nothing
pop_front(entries) == IF entries = <<>> THEN <<>> ELSE Tail(entries)

\* push that drops the oldest entry only after the capacity was exceeded
LogBuffer_push_late(buf, entry) ==
    [buf EXCEPT !.entries =
        Append(IF Len(buf.entries) > buf.capacity
               THEN pop_front(buf.entries) ELSE buf.entries, entry)]

\* push that appends at the front
LogBuffer_push_front(buf, entry) ==
    [buf EXCEPT !.entries =
        <<entry>> \o (IF Len(buf.entries) = buf.capacity
                      THEN pop_front(buf.entries) ELSE buf.entries)]

\* logs.rs LogBuffer::push
LogBuffer_push(buf, entry) ==
    [buf EXCEPT !.entries =
        Append(IF Len(buf.entries) = buf.capacity
               THEN pop_front(buf.entries) ELSE buf.entries, entry)]

\* tail that takes the entries from the front
LogBuffer_tail_front(buf, count) ==
    LET n == IF count < Len(buf.entries) THEN count ELSE Len(buf.entries)
    IN SubSeq(buf.entries, 1, n)

\* logs.rs LogBuffer::tail
LogBuffer_tail(buf, count) ==
    LET n == IF count < Len(buf.entries) THEN count ELSE Len(buf.entries)
    IN SubSeq(buf.entries, Len(buf.entries) - n + 1, Len(buf.entries))

\* logs.rs LogBuffer::all
LogBuffer_all(buf) == buf.entries

\* state.rs insert_app
insert_app(st, compose) ==
    LET names == Range(compose.services)
        app == [app_name |-> compose.app_name,
                profiles |-> compose.profiles,
                services |-> [n \in names |->
                    [status |-> "Stopped", pid |-> Nil, started_at |-> None,
                     exit_code |-> Nil,
                     logs |-> LogBuffer_new(LOG_BUFFER_CAPACITY)]],
                service_order |-> compose.services]
    IN [st EXCEPT !.apps =
            [a \in DOMAIN st.apps \cup {compose.app_name} |->
                IF a = compose.app_name THEN app ELSE st.apps[a]]]

\* update_service_status that forgets to clear started_at
update_service_status_keeps_started_at(service_state, status) ==
    [service_state EXCEPT !.status = status]

\* state.rs update_service_status, on the service_state it found
update_service_status(service_state, status) ==
    [service_state EXCEPT
        !.status = status,
        !.started_at = IF status \notin {"Running", "Starting"} THEN None ELSE @]

\* state.rs set_service_pid, on the service_state it found
set_service_pid(service_state, pid) == [service_state EXCEPT !.pid = pid]

\* state.rs set_service_start_time, on the service_state it found
set_service_start_time(service_state, time) ==
    [service_state EXCEPT !.started_at = time]

\* state.rs set_exit_code, on the service_state it found
set_exit_code(service_state, code) == [service_state EXCEPT !.exit_code = code]

\* state.rs push_log
push_log(st, app, service, entry) ==
    IF has_service(st, app, service)
    THEN [st EXCEPT !.apps[app].services[service].logs = LogBuffer_push(@, entry)]
    ELSE st

\* state.rs list_apps
list_apps(st) == DOMAIN st.apps

----------------------------------------------------------------------------
(* Results: Result<T, ServinelError> *)

Ok(v) == [ok |-> TRUE, value |-> v]
Err(e) == [ok |-> FALSE, value |-> e]

----------------------------------------------------------------------------
(* Selector and app resolution: daemon/server.rs *)

\* resolve_app that takes some registered app whenever there is one
resolve_app_any(st, app) ==
    IF app # None THEN Ok(app)
    ELSE IF list_apps(st) # {}
         THEN Ok(CHOOSE a \in list_apps(st) : TRUE)
         ELSE Err("Multiple apps running, use --app")

\* server.rs resolve_app
resolve_app(st, app) ==
    IF app # None THEN Ok(app)
    ELSE IF Cardinality(list_apps(st)) = 1
         THEN Ok(CHOOSE a \in list_apps(st) : TRUE)
         ELSE Err("Multiple apps running, use --app")

\* the orders app_state.services.keys() can iterate in: services is a
\* HashMap, whose iteration order is unspecified
services_keys(st, app) ==
    IF app \in DOMAIN st.apps
    THEN Permutations_of(DOMAIN st.apps[app].services)
    ELSE {<<>>}

\* the `match selector` of resolve_services; keys is what
\* app_state.services.keys() yields
selected_services(app_state, selector, keys) ==
    CASE selector.tag = "All" -> Ok(keys)
      [] selector.tag = "Service" -> Ok(<<selector.name>>)
      [] selector.tag = "Services" -> Ok(selector.names)
      [] selector.tag = "Profile" ->
            IF selector.name \in DOMAIN app_state.profiles
            THEN Ok(app_state.profiles[selector.name])
            ELSE Err("ProfileNotFound")

\* resolve_services without the re-check of the names against app.services
resolve_services_unchecked(st, app, selector, keys) ==
    IF app \notin DOMAIN st.apps THEN Err("AppNotFound")
    ELSE selected_services(st.apps[app], selector, keys)

\* resolve_services that re-checks only the first name of the list
resolve_services_first_checked(st, app, selector, keys) ==
    IF app \notin DOMAIN st.apps THEN Err("AppNotFound")
    ELSE LET app_state == st.apps[app]
             services == selected_services(app_state, selector, keys)
         IN IF ~services.ok THEN services
            ELSE IF services.value # <<>> /\ services.value[1] \notin DOMAIN app_state.services
                 THEN Err("ServiceNotFound")
                 ELSE services

\* server.rs resolve_services
resolve_services(st, app, selector, keys) ==
    IF app \notin DOMAIN st.apps THEN Err("AppNotFound")
    ELSE LET app_state == st.apps[app]
             services == selected_services(app_state, selector, keys)
             known == DOMAIN app_state.services
         IN IF ~services.ok THEN services
            ELSE IF \E i \in DOMAIN services.value : services.value[i] \notin known
                 THEN Err("ServiceNotFound")
                 ELSE services

\* the selector an Up request resolves: Profile(p) or All (server.rs up)
selector_of(req) ==
    IF req.kind = "Up"
    THEN (IF req.profile = None THEN All ELSE Profile(req.profile))
    ELSE req.selector

----------------------------------------------------------------------------
(* Status: daemon/server.rs *)

\* the orders the HashMaps of the state can iterate in: state.apps.values()
\* and, for every app, app_state.services.keys()
HashOrders(st) ==
    {[apps |-> a, keys |-> k] :
        a \in Permutations_of(DOMAIN st.apps),
        k \in {f \in [DOMAIN st.apps -> UNION {services_keys(st, x) : x \in DOMAIN st.apps}] :
                    \A x \in DOMAIN st.apps : f[x] \in services_keys(st, x)}}

\* what services.keys() yields for app under the iteration orders `order`
keys_of(order, app) == IF app \in DOMAIN order.keys THEN order.keys[app] ELSE <<>>

\* the subsequence of names for which app_state.services.get(&name) is Some
RECURSIVE found_services(_, _)
found_services(app_state, names) ==
    IF names = <<>> THEN <<>>
    ELSE (IF Head(names) \in DOMAIN app_state.services THEN <<Head(names)>> ELSE <<>>)
         \o found_services(app_state, Tail(names))

\* server.rs build_snapshot (uptime_secs and metrics are sampled numbers)
build_snapshot(app_state, services) ==
    LET found == found_services(app_state, services)
    IN [app_name |-> app_state.app_name,
        services |-> [i \in DOMAIN found |->
            [name |-> found[i],
             status |-> app_state.services[found[i]].status,
             pid |-> app_state.services[found[i]].pid,
             exit_code |-> app_state.services[found[i]].exit_code]]]

\* status that snapshots every app whatever the selector is
status_any_selector(st, app, selector, order) ==
    IF app = None
    THEN Ok([apps |-> [i \in DOMAIN order.apps |->
                build_snapshot(st.apps[order.apps[i]], keys_of(order, order.apps[i]))]])
    ELSE LET services == resolve_services(st, app, selector, keys_of(order, app))
         IN IF ~services.ok THEN services
            ELSE Ok([apps |-> <<build_snapshot(st.apps[app], services.value)>>])

\* server.rs status
status(st, app, selector, order) ==
    IF app = None
    THEN IF selector # All
         THEN Err("--app is required for profiles or specific services")
         ELSE Ok([apps |-> [i \in DOMAIN order.apps |->
                build_snapshot(st.apps[order.apps[i]], keys_of(order, order.apps[i]))]])
    ELSE LET services == resolve_services(st, app, selector, keys_of(order, app))
         IN IF ~services.ok THEN services
            ELSE Ok([apps |-> <<build_snapshot(st.apps[app], services.value)>>])

\* the CLI process is not running
NoClient == [pc |-> "none"]

\* the locks are not followed
NoLocks == [pc |-> "none"]

\* no read-only call was made yet
NoCall == [fn |-> "none"]

----------------------------------------------------------------------------
(* Supervisor table and child processes: daemon/supervisor.rs *)

\* a contains_key that never finds the key
runtimes_contains_key_never(rt, key) == FALSE

runtimes_contains_key(rt, key) == key \in DOMAIN rt

runtimes_insert(rt, key, child) ==
    [k \in DOMAIN rt \cup {key} |-> IF k = key THEN child ELSE rt[k]]

runtimes_remove(rt, key) == [k \in DOMAIN rt \ {key} |-> rt[k]]

\* libc::kill(-pid, SIGKILL): a running group leader dies by the signal
\* (ExitStatus::code() of a signalled child is None); a pid that already
\* exited or was reaped is not changed by it
kill(ch, pid) ==
    [c \in DOMAIN ch |->
        IF c = pid /\ ch[c].st = "alive"
        THEN [ch[c] EXCEPT !.st = "dead", !.code = Nil]
        ELSE ch[c]]

\* cmd.spawn(): the new child leads its own process group
spawn(ch, pid, key) ==
    [c \in DOMAIN ch \cup {pid} |->
        IF c = pid THEN [key |-> key, st |-> "alive", code |-> Nil] ELSE ch[c]]

\* wait()/try_wait() collected the exit status: the process is gone
reap(ch, pids) == [c \in DOMAIN ch \ pids |-> ch[c]]

\* the children whose handle stop_service moved into a detached wait() task
waited(rt, ch) == {c \in DOMAIN ch : \A k \in DOMAIN rt : rt[k] # c}

\* start_service that forgets set_service_pid
start_service_write_without_pid(st, app, service, pid) ==
    LET s0 == get_service(st, app, service)
        s1 == update_service_status(s0, "Running")
        s3 == set_service_start_time(s1, "Some")
        s4 == set_exit_code(s3, Nil)
    IN with_service(st, app, service, s4)

\* start_service that records Starting instead of Running
start_service_write_starting(st, app, service, pid) ==
    LET s0 == get_service(st, app, service)
        s1 == update_service_status(s0, "Starting")
        s2 == set_service_pid(s1, Some(pid))
        s3 == set_service_start_time(s2, "Some")
        s4 == set_exit_code(s3, Nil)
    IN with_service(st, app, service, s4)

\* the four writes start_service makes under the state write guard; each
\* finds the same service_state
start_service_write(st, app, service, pid) ==
    LET s0 == get_service(st, app, service)
        s1 == update_service_status(s0, "Running")
        s2 == set_service_pid(s1, Some(pid))
        s3 == set_service_start_time(s2, "Some")
        s4 == set_exit_code(s3, Nil)
    IN with_service(st, app, service, s4)

\* stop_service that forgets set_exit_code
stop_service_write_keeps_exit_code(st, app, service) ==
    LET s0 == get_service(st, app, service)
        s1 == update_service_status(s0, "Stopped")
        s2 == set_service_pid(s1, Nil)
        s3 == set_service_start_time(s2, None)
    IN with_service(st, app, service, s3)

\* the four writes stop_service makes under the state write guard
stop_service_write(st, app, service) ==
    LET s0 == get_service(st, app, service)
        s1 == update_service_status(s0, "Stopped")
        s2 == set_service_pid(s1, Nil)
        s3 == set_service_start_time(s2, None)
        s4 == set_exit_code(s3, Nil)
    IN with_service(st, app, service, s4)

\* refresh that drops the exit code of the child
apply_update_without_exit_code(st, u) ==
    LET s0 == get_service(st, u.app, u.service)
        s1 == update_service_status(s0, "Exited")
        s2 == set_service_pid(s1, Nil)
        s3 == set_service_start_time(s2, None)
        s4 == set_exit_code(s3, Nil)
    IN with_service(st, u.app, u.service, s4)

\* one RefreshUpdate::Exited applied to the state (the match in refresh)
apply_update(st, u) ==
    LET s0 == get_service(st, u.app, u.service)
        s1 == update_service_status(s0, "Exited")
        s2 == set_service_pid(s1, Nil)
        s3 == set_service_start_time(s2, None)
        s4 == set_exit_code(s3, u.exit_code)
    IN with_service(st, u.app, u.service, s4)

\* the updates of one tick touch distinct keys, so their order is immaterial
RECURSIVE apply_updates(_, _)
apply_updates(st, updates) ==
    IF updates = {} THEN st
    ELSE LET u == CHOOSE x \in updates : TRUE
         IN apply_updates(apply_update(st, u), updates \ {u})

\* the keys refresh removes from the table: those whose try_wait() found
\* an exit status
refresh_to_remove(rt, ch) == {k \in DOMAIN rt : ch[rt[k]].st # "alive"}

\* the RefreshUpdate::Exited entries of one pass over runtimes.iter_mut()
refresh_updates(rt, ch) ==
    {[app |-> k[1], service |-> k[2], exit_code |-> ch[rt[k]].code] :
        k \in refresh_to_remove(rt, ch)}

----------------------------------------------------------------------------
(* Connection tasks: ipc/server.rs handle_connection and the Daemon methods *)

\* a connection task that is not serving a request
IdleConn ==
    [pc |-> "idle", kind |-> None, file |-> None, selector |-> NoSelector,
     app_name |-> None, services |-> <<>>, idx |-> 0, pass |-> None, pid |-> Nil,
     first_pid |-> 0]

\* protocol.rs Response, as written to the connection
ResponseError(msg) == [tag |-> "Error", msg |-> msg]
ResponseAck == [tag |-> "Ack"]
ResponseLogChunk(chunk) == [tag |-> "LogChunk", chunk |-> chunk]

ResponseStatusSnapshot(snapshot) == [tag |-> "StatusSnapshot", snapshot |-> snapshot]
ResponseProfilesList(names) == [tag |-> "ProfilesList", profiles |-> names]

\* the peers of the connections, in the specifications that follow what the
\* daemon sends them: the request each task read and the lines written back
Peers ==
    [pc |-> "peers", request |-> [h \in Handlers |-> None],
     lines |-> [h \in Handlers |-> <<>>], bad |-> [h \in Handlers |-> FALSE]]

\* handle_connection of task h read the request req and wrote responses
served(h, req, responses) ==
    client' = IF client.pc = "peers"
              THEN [client EXCEPT !.request[h] = req.kind, !.lines[h] = responses]
              ELSE client

\* a handler that answers twice
write_response_twice(h, response) ==
    client' = IF client.pc = "peers"
              THEN [client EXCEPT !.lines[h] = @ \o <<response, response>>]
              ELSE client

\* write_response on the connection of task h
write_response(h, response) ==
    client' = IF client.pc = "peers"
              THEN [client EXCEPT !.lines[h] = Append(@, response)]
              ELSE client

\* the task wrote its response line (Ack or Error) and ended
Replied == IdleConn

\* the supervisor call the loops of up/start/stop/restart make next
next_call(c) ==
    IF c.kind = "Stop" \/ (c.kind = "Restart" /\ c.pass = "stop")
    THEN "stop_service" ELSE "start_service"

\* a supervisor call returned Ok: the loop moves on; restart runs its start
\* pass once the stop pass went through every service
returned(c) ==
    LET last == c.idx = Len(c.services)
        again == c.kind = "Restart" /\ c.pass = "stop" /\ last
    IN [c EXCEPT !.pc = "loop", !.pid = Nil,
                 !.idx = IF again THEN 1 ELSE c.idx + 1,
                 !.pass = IF again THEN "start" ELSE c.pass]

InCall(c) ==
    c.pc \in {"ss_kill", "ss_lock", "ss_write", "st_kill", "st_lock", "st_write"}

\* the request was read and parsed; app_name is known.  first_pid remembers,
\* for a restart, which children exist when the request arrives: those
\* spawned later have the pids from first_pid on.
resolving(req, file, app_name) ==
    [IdleConn EXCEPT !.pc = "resolve_services", !.kind = req.kind, !.file = file,
                     !.selector = selector_of(req), !.app_name = app_name,
                     !.pass = IF req.kind = "Restart" THEN "stop" ELSE None,
                     !.first_pid = IF req.kind = "Restart" THEN next_pid ELSE 0]

\* a request with a compose file (up, start with a file) is read:
\* load_compose + register_app
Register(h, req) ==
    /\ conn[h].pc = "idle"
    /\ req.kind = "Up" \/ (req.kind = "Start" /\ req.file # None)
    /\ LET compose == load_compose(req.file)
       IN /\ state' = insert_app(state, compose)
          /\ conn' = [conn EXCEPT ![h] = resolving(req, req.file, compose.app_name)]
    /\ served(h, req, <<>>)
    /\ UNCHANGED <<runtimes, runtimes_lock, children, next_pid, tick>>
    /\ UNCHANGED <<call, locks, log_vars>>

\* a request without a compose file (start, stop, restart) is read: resolve_app
ResolveApp(h, req) ==
    /\ conn[h].pc = "idle"
    /\ req.kind \in {"Stop", "Restart"} \/ (req.kind = "Start" /\ req.file = None)
    /\ LET r == resolve_app(state, req.app)
       IN /\ conn' = [conn EXCEPT ![h] =
                IF r.ok THEN resolving(req, None, r.value) ELSE Replied]
          /\ served(h, req, IF r.ok THEN <<>> ELSE <<ResponseError(r.value)>>)
    /\ UNCHANGED <<state, runtimes, runtimes_lock, children, next_pid, tick>>
    /\ UNCHANGED <<call, locks, log_vars>>

\* resolve_services
ResolveServices(h) ==
    /\ conn[h].pc = "resolve_services"
    /\ \E keys \in services_keys(state, conn[h].app_name) :
        LET r == resolve_services(state, conn[h].app_name, conn[h].selector, keys)
        IN /\ conn' = [conn EXCEPT ![h] =
                IF r.ok THEN [@ EXCEPT !.pc = "loop", !.services = r.value, !.idx = 1,
                                       !.selector = NoSelector, !.file = None]
                ELSE Replied]
           /\ IF r.ok THEN UNCHANGED client
              ELSE write_response(h, ResponseError(r.value))
    /\ UNCHANGED <<state, runtimes, runtimes_lock, children, next_pid, tick>>
    /\ UNCHANGED <<call, locks, log_vars>>

\* every call of the loop returned Ok: write_response(Ack)
ReplyAck(h) ==
    /\ conn[h].pc = "loop"
    /\ conn[h].idx > Len(conn[h].services)
    /\ conn' = [conn EXCEPT ![h] = Replied]
    /\ write_response(h, ResponseAck)
    /\ UNCHANGED <<state, runtimes, runtimes_lock, children, next_pid, tick>>
    /\ UNCHANGED <<call, locks, log_vars>>

----------------------------------------------------------------------------
(* Supervisor::start_service *)

\* lines 39-60: read command, workdir and pid under the state read guard
StartRead(h) ==
    LET c == conn[h] IN
    /\ c.pc = "loop"
    /\ c.idx <= Len(c.services)
    /\ next_call(c) = "start_service"
    /\ conn' = [conn EXCEPT ![h] =
            IF ~has_service(state, c.app_name, c.services[c.idx])
            THEN Replied
            ELSE LET pid == state.apps[c.app_name].services[c.services[c.idx]].pid
                 IN [c EXCEPT !.pid = pid,
                              !.pc = IF pid # Nil THEN "ss_kill" ELSE "ss_lock"]]
    /\ IF ~has_service(state, c.app_name, c.services[c.idx])
       THEN write_response(h, ResponseError("ServiceNotFound"))
       ELSE UNCHANGED client
    /\ UNCHANGED <<state, runtimes, runtimes_lock, children, next_pid, tick>>
    /\ UNCHANGED <<call, locks, log_vars>>

\* lines 62-67: kill the process group of the pid that was read
StartKill(h) ==
    /\ conn[h].pc = "ss_kill"
    /\ children' = kill(children, conn[h].pid[1])
    /\ conn' = [conn EXCEPT ![h].pc = "ss_lock"]
    /\ UNCHANGED <<state, runtimes, runtimes_lock, next_pid, tick>>
    /\ UNCHANGED <<query_vars, log_vars>>

\* a start_service that puts the key into the table before it spawns
insert_before_spawn(rt, key, child, pid) == runtimes_insert(rt, key, pid)

\* lines 87-101: cmd.spawn()? returns the error before runtimes.insert is
\* reached; child is the Result of the spawn
insert_spawned(rt, key, child, pid) ==
    IF child.ok THEN runtimes_insert(rt, key, pid) ELSE rt

\* lines 69-101: take the table lock; return if the key is there, else spawn
\* and insert.  The guard stays held until the function returns.
StartLock(h) ==
    LET c == conn[h]
        key == <<c.app_name, c.services[c.idx]>>
    IN
    /\ c.pc = "ss_lock"
    /\ runtimes_lock = 0
    /\ IF runtimes_contains_key(runtimes, key)
       THEN /\ conn' = [conn EXCEPT ![h] =
                    returned(c)]
            /\ UNCHANGED <<runtimes, runtimes_lock, children, next_pid, client>>
       ELSE \E spawn_ok \in IF next_pid <= MaxChildren THEN {TRUE, FALSE} ELSE {FALSE} :
            IF spawn_ok
            THEN /\ children' = spawn(children, next_pid, key)
                 /\ next_pid' = next_pid + 1
                 /\ runtimes' = insert_spawned(runtimes, key, Ok(next_pid), next_pid)
                 /\ runtimes_lock' = h
                 /\ conn' = [conn EXCEPT ![h].pc = "ss_write",
                                         ![h].pid = Some(next_pid)]
                 /\ UNCHANGED client
            ELSE /\ conn' = [conn EXCEPT ![h] = Replied]
                 /\ write_response(h, ResponseError("Io"))
                 /\ runtimes' = insert_spawned(runtimes, key, Err("Io"), next_pid)
                 /\ UNCHANGED <<runtimes_lock, children, next_pid>>
    /\ UNCHANGED <<state, tick>>
    /\ UNCHANGED <<call, locks, log_vars>>

\* lines 103-108: record Running under the state write guard, drop the lock
StartWrite(h) ==
    LET c == conn[h] IN
    /\ c.pc = "ss_write"
    /\ state' = start_service_write(state, c.app_name, c.services[c.idx], c.pid[1])
    /\ runtimes_lock' = 0
    /\ conn' = [conn EXCEPT ![h] =
            returned(c)]
    /\ UNCHANGED <<runtimes, children, next_pid, tick>>
    /\ UNCHANGED <<query_vars, log_vars>>

----------------------------------------------------------------------------
(* Supervisor::stop_service *)

\* lines 112-117: read the pid under the state read guard
StopRead(h) ==
    LET c == conn[h] IN
    /\ c.pc = "loop"
    /\ c.idx <= Len(c.services)
    /\ next_call(c) = "stop_service"
    /\ LET pid == IF has_service(state, c.app_name, c.services[c.idx])
                  THEN state.apps[c.app_name].services[c.services[c.idx]].pid
                  ELSE Nil
       IN conn' = [conn EXCEPT ![h].pid = pid,
                               ![h].pc = IF pid # Nil THEN "st_kill" ELSE "st_lock"]
    /\ UNCHANGED <<state, runtimes, runtimes_lock, children, next_pid, tick>>
    /\ UNCHANGED <<query_vars, log_vars>>

\* lines 119-124: kill the process group of the pid that was read
StopKill(h) ==
    /\ conn[h].pc = "st_kill"
    /\ children' = kill(children, conn[h].pid[1])
    /\ conn' = [conn EXCEPT ![h].pc = "st_lock"]
    /\ UNCHANGED <<state, runtimes, runtimes_lock, next_pid, tick>>
    /\ UNCHANGED <<query_vars, log_vars>>

\* lines 126-131: take the table lock, remove the runtime and hand its child
\* to a detached task that waits for it
StopLock(h) ==
    LET c == conn[h]
        key == <<c.app_name, c.services[c.idx]>>
    IN
    /\ c.pc = "st_lock"
    /\ runtimes_lock = 0
    /\ runtimes_lock' = h
    /\ runtimes' = runtimes_remove(runtimes, key)
    /\ conn' = [conn EXCEPT ![h].pc = "st_write"]
    /\ UNCHANGED <<state, children, next_pid, tick>>
    /\ UNCHANGED <<query_vars, log_vars>>

\* lines 133-138: record Stopped under the state write guard, drop the lock
StopWrite(h) ==
    LET c == conn[h] IN
    /\ c.pc = "st_write"
    /\ state' = stop_service_write(state, c.app_name, c.services[c.idx])
    /\ runtimes_lock' = 0
    /\ conn' = [conn EXCEPT ![h] =
            returned(c)]
    /\ UNCHANGED <<runtimes, children, next_pid, tick>>
    /\ UNCHANGED <<query_vars, log_vars>>

----------------------------------------------------------------------------
(* Supervisor::refresh, called by Daemon::tick_loop every 800 ms *)

\* lines 145-190: under the table lock, reap the children that exited,
\* sample the others, remove the reaped keys
RefreshReap ==
    /\ tick.pc = "idle"
    /\ runtimes_lock = 0
    /\ LET gone == refresh_to_remove(runtimes, children)
       IN /\ tick' = [pc |-> "apply", updates |-> refresh_updates(runtimes, children)]
          /\ children' = reap(children, {runtimes[k] : k \in gone})
          /\ runtimes' = [k \in DOMAIN runtimes \ gone |-> runtimes[k]]
    /\ UNCHANGED <<state, runtimes_lock, next_pid, conn>>
    /\ UNCHANGED <<query_vars, log_vars>>

\* lines 193-213: apply the updates under the state write guard
RefreshApply ==
    /\ tick.pc = "apply"
    /\ state' = apply_updates(state, tick.updates)
    /\ tick' = [pc |-> "idle", updates |-> {}]
    /\ UNCHANGED <<runtimes, runtimes_lock, children, next_pid, conn>>
    /\ UNCHANGED <<query_vars, log_vars>>

----------------------------------------------------------------------------
(* The child processes *)

\* a running child exits by itself
ChildExit(c, code) ==
    /\ c \in DOMAIN children
    /\ children[c].st = "alive"
    /\ children' = [children EXCEPT ![c].st = "dead", ![c].code = Some(code)]
    /\ UNCHANGED <<state, runtimes, runtimes_lock, next_pid, conn, tick>>
    /\ UNCHANGED <<query_vars, log_vars>>

\* the detached task of stop_service: runtime.child.wait() returns
WaiterReap(c) ==
    /\ c \in DOMAIN children
    /\ c \in waited(runtimes, children)
    /\ children[c].st = "dead"
    /\ children' = reap(children, {c})
    /\ UNCHANGED <<state, runtimes, runtimes_lock, next_pid, conn, tick>>
    /\ UNCHANGED <<query_vars, log_vars>>

----------------------------------------------------------------------------
(* The line-reader tasks: Supervisor::spawn_log_task *)

\* logs.rs LogStream
LogStream == {"Stdout", "Stderr"}

\* supervisor.rs: broadcast::channel(1024)
BROADCAST_CAPACITY == 1024

\* the entries published on the channel of child pid so far
sent(pid) == IF pid \in DOMAIN log_tx THEN log_tx[pid] ELSE <<>>

\* every Sender of the channel was dropped: the ServiceRuntime, and with the
\* child reaped its pipes are at their end, so that both reader tasks left
\* their loops and dropped their clones
closed(pid) == pid \notin DOMAIN children

\* the entries read from the pipes so far
created == UNION {Range(log_tx[pid]) : pid \in DOMAIN log_tx}

\* the receivers of the channel of child pid: the positions the open
\* subscriptions will read next
receivers(pid) ==
    UNION {{session[h].subs[i].next :
                i \in {j \in DOMAIN session[h].subs :
                            session[h].subs[j].pid = pid /\ session[h].subs[j].live}} :
           h \in Handlers}

\* a send that waits until every receiver has taken what was sent before
send_ready_when_received(tx, rx) == \A next \in rx : next > Len(tx)

\* broadcast::Sender::send is not async: it stores the entry (over the
\* oldest one when the channel is full) and returns, whatever the receivers
\* have taken; without a receiver it returns an error, which is dropped
send_ready(tx, rx) == TRUE

\* lines 235-244, one turn of the loop of a reader task: next_line() gives a
\* line of the child's pipe (which touches nothing shared), the LogEntry is
\* built and, under the state write guard, push_log and then send
PushLog(pid, stream) ==
    LET key == children[pid].key
        entry == [stream |-> stream, line |-> Cardinality(created) + 1]
    IN
    /\ pid \in DOMAIN children
    /\ Cardinality(created) < MaxLines
    /\ send_ready(sent(pid), receivers(pid))
    /\ state' = push_log(state, key[1], key[2], entry)
    /\ log_tx' = [x \in DOMAIN log_tx \cup {pid} |->
            IF x = pid THEN Append(sent(pid), entry) ELSE log_tx[x]]
    /\ UNCHANGED <<runtimes, runtimes_lock, children, next_pid, conn, tick,
                   query_vars, session, log_buffer, pushed>>

\* no Logs session on the connection
IdleSession ==
    [pc |-> "idle", app_name |-> None, selector |-> NoSelector, follow |-> FALSE,
     tail |-> Nil, services |-> <<>>, idx |-> 0, chunks |-> <<>>, subs |-> <<>>,
     out |-> <<>>, client |-> "open", ended |-> FALSE]

----------------------------------------------------------------------------
(* Request::Logs: ipc/server.rs handle_connection, daemon/server.rs logs *)

\* protocol.rs LogChunk
LogChunk(app, service, entry) == [app |-> app, service |-> service, entry |-> entry]

\* what the steps of a Logs session leave alone
session_unchanged ==
    UNCHANGED <<state, runtimes, runtimes_lock, children, next_pid, conn, tick,
                query_vars, log_tx, log_buffer, pushed>>

\* handle_connection returned: the task's locals are dropped (the
\* subscriptions with them); what the client was sent stays
dropped(s) ==
    [IdleSession EXCEPT !.pc = "closed", !.follow = s.follow, !.out = s.out,
                        !.client = s.client, !.ended = s.ended,
                        !.chunks = s.chunks]

\* daemon.logs failed: the Error response is written and the connection ends
logs_failed(s, err) ==
    dropped([s EXCEPT !.out = IF s.client = "open" THEN <<ResponseError(err)>> ELSE <<>>])

\* server.rs lines 145-146: a Logs request arrives; resolve_app and
\* resolve_services, which read the catalog of the apps
LogsResolve(h, req) ==
    /\ session[h].pc = "idle"
    /\ LET s == [IdleSession EXCEPT !.selector = req.selector,
                                    !.follow = req.follow, !.tail = req.tail]
           a == resolve_app(state, req.app)
       IN IF ~a.ok
          THEN session' = [session EXCEPT ![h] = logs_failed(s, a.value)]
          ELSE \E keys \in services_keys(state, a.value) :
                LET r == resolve_services(state, a.value, req.selector, keys)
                IN session' = [session EXCEPT ![h] =
                    IF r.ok THEN [s EXCEPT !.pc = "history", !.app_name = a.value,
                                           !.services = r.value]
                    ELSE logs_failed(s, r.value)]
    /\ session_unchanged

\* lines 157-171: the stored entries of the services, in the order of the
\* resolved list
RECURSIVE history_chunks(_, _, _, _)
history_chunks(app_state, app_name, services, tail) ==
    IF services = <<>> THEN <<>>
    ELSE LET service == Head(services)
             entries == IF service \notin DOMAIN app_state.services THEN <<>>
                        ELSE IF tail = Nil THEN LogBuffer_all(app_state.services[service].logs)
                        ELSE LogBuffer_tail(app_state.services[service].logs, tail[1])
         IN [i \in DOMAIN entries |-> LogChunk(app_name, service, entries[i])]
            \o history_chunks(app_state, app_name, Tail(services), tail)

\* lines 150-172: the history, collected under one state read guard
LogsHistory(h) ==
    /\ session[h].pc = "history"
    /\ session' = [session EXCEPT ![h] =
            IF session[h].app_name \notin DOMAIN state.apps
            THEN logs_failed(@, "AppNotFound")
            ELSE [@ EXCEPT !.pc = "log_sender", !.idx = 1,
                           !.chunks = history_chunks(state.apps[session[h].app_name],
                                        session[h].app_name, session[h].services,
                                        session[h].tail)]]
    /\ session_unchanged

\* lines 176-185 and supervisor.rs log_sender: under the table lock, the
\* Sender of the service's runtime if it has one; subscribe() then receives
\* what is sent from now on
LogsSender(h) ==
    LET s == session[h]
        key == <<s.app_name, s.services[s.idx]>>
    IN
    /\ s.pc = "log_sender"
    /\ s.idx <= Len(s.services)
    /\ runtimes_lock = 0
    /\ session' = [session EXCEPT ![h] =
            [@ EXCEPT !.idx = s.idx + 1,
                      !.subs = IF runtimes_contains_key(runtimes, key)
                               THEN Append(s.subs,
                                      [service |-> key[2], pid |-> runtimes[key],
                                       next |-> Len(sent(runtimes[key])) + 1,
                                       live |-> TRUE])
                               ELSE s.subs]]
    /\ session_unchanged

\* write_response that puts the lines before the lines written earlier
write_responses_front(s, responses) ==
    IF responses = <<>> THEN s
    ELSE [s EXCEPT !.out = responses \o s.out]

\* write_response, for a sequence of responses: the lines reach the client
\* unless the client is gone, and then the handler returns the write error
write_responses(s, responses) ==
    IF responses = <<>> THEN s
    ELSE IF s.client = "open" THEN [s EXCEPT !.out = s.out \o responses]
    ELSE dropped(s)

\* a handler that ends a session without follow after the history
write_history_without_ack(s, history) == dropped(write_responses(s, history))

\* ipc/server.rs lines 97-99 and 103: without follow, the history chunks and
\* the Ack, and the handler returns
write_history_and_ack(s, history) ==
    dropped(write_responses(s, Append(history, ResponseAck)))

\* ipc/server.rs lines 97-104: the history chunks in their order, then
\* stream_logs (which spawns the forwarders) or the Ack.  The writes touch
\* nothing but the connection.
LogsWriteHistory(h) ==
    LET s == session[h]
        history == [i \in DOMAIN s.chunks |-> ResponseLogChunk(s.chunks[i])]
    IN
    /\ s.pc = "log_sender"
    /\ s.idx > Len(s.services)
    /\ session' = [session EXCEPT ![h] =
            IF s.follow
            THEN LET w == write_responses(s, history)
                 IN IF w.pc = "closed" THEN w ELSE [w EXCEPT !.pc = "stream"]
            ELSE write_history_and_ack(s, history)]
    /\ session_unchanged

\* broadcast::Receiver::recv: the entry the receiver is to read next was
\* overwritten, because more than the capacity was published since
lagged(published, next) == published - next >= BROADCAST_CAPACITY

\* stream_logs lines 136-140 and 146-151: the forwarder sends the chunk into
\* the queue and ignores the result of the send; the writer loop writes the
\* chunk and returns on a write error, which drops the queue's receiver but
\* not the forwarders: they were spawned detached and own their receivers
forwarded(s, responses) ==
    IF s.pc = "closed" THEN s
    ELSE LET w == write_responses(s, responses)
         IN IF w.pc = "closed" THEN [w EXCEPT !.subs = s.subs] ELSE w

\* stream_logs lines 134-151: a forwarder task and the writer loop.
\* recv() gives the next entry, Err(Lagged) when the entry was overwritten in
\* the channel, Err(Closed) when every Sender is gone and nothing is left to
\* read; the forwarder ends on either error, and on nothing else.  An entry
\* received goes through the unbounded queue to the writer loop.
Forward(h, i) ==
    LET s == session[h]
        sub == s.subs[i]
        tx == sent(sub.pid)
    IN
    /\ s.pc \in {"stream", "closed"}
    /\ i \in DOMAIN s.subs
    /\ sub.live
    /\ \/ /\ sub.next <= Len(tx)
          /\ session' = [session EXCEPT ![h] =
                IF lagged(Len(tx), sub.next)
                THEN [s EXCEPT !.subs[i].live = FALSE]
                ELSE forwarded([s EXCEPT !.subs[i].next = sub.next + 1],
                        <<ResponseLogChunk(LogChunk(s.app_name, sub.service, tx[sub.next]))>>)]
       \/ /\ sub.next > Len(tx)
          /\ closed(sub.pid)
          /\ session' = [session EXCEPT ![h] = [s EXCEPT !.subs[i].live = FALSE]]
    /\ session_unchanged

\* stream_logs lines 146 and 152: every forwarder has ended, so that every
\* Sender of the queue is dropped: rx.recv() gives None, stream_logs returns
\* Ok and the daemon closes the connection
StreamEnd(h) ==
    LET s == session[h] IN
    /\ s.pc = "stream"
    /\ \A i \in DOMAIN s.subs : ~s.subs[i].live
    /\ session' = [session EXCEPT ![h] = dropped([s EXCEPT !.ended = TRUE])]
    /\ session_unchanged

\* the client, which stays for the history, closes its end of the connection
\* while the live entries are streamed
ClientDisconnect(h) ==
    /\ session[h].pc = "stream"
    /\ session[h].client = "open"
    /\ session' = [session EXCEPT ![h].client = "gone"]
    /\ session_unchanged

----------------------------------------------------------------------------
(* Specification *)

\* Daemon::new: empty state, empty table, no request in flight
Init ==
    /\ log_tx = <<>>
    /\ session = [h \in Handlers |-> IdleSession]
    /\ log_buffer = LogBuffer_new(LOG_BUFFER_CAPACITY)
    /\ pushed = <<>>
    /\ state = DaemonState_default
    /\ runtimes = <<>>
    /\ runtimes_lock = 0
    /\ children = <<>>
    /\ next_pid = 1
    /\ conn = [h \in Handlers |-> IdleConn]
    /\ tick = [pc |-> "idle", updates |-> {}]
    /\ call = NoCall
    /\ client = NoClient
    /\ locks = NoLocks

\* the steps of connection task h, serving requests drawn from reqs
Connection(h, reqs) ==
    \/ \E req \in reqs : Register(h, req)
    \/ \E req \in reqs : ResolveApp(h, req)
    \/ ResolveServices(h)
    \/ ReplyAck(h)
    \/ StartRead(h)
    \/ StartKill(h)
    \/ StartLock(h)
    \/ StartWrite(h)
    \/ StopRead(h)
    \/ StopKill(h)
    \/ StopLock(h)
    \/ StopWrite(h)

\* the tick task and the child processes
Background ==
    \/ RefreshReap
    \/ RefreshApply
    \/ \E c \in DOMAIN children, code \in ExitCodes : ChildExit(c, code)
    \/ \E c \in DOMAIN children : WaiterReap(c)

\* One client at a time: a connection is served to its response before the
\* next request arrives; the tick and the children run concurrently with it.
Next ==
    \/ Connection(1, Requests)
    \/ Background

Spec == Init /\ [][Next]_vars

\* Two clients at a time, both addressing the service "api" of the app "web"
ConcRequests ==
    {[kind |-> "Up", file |-> "web.yaml", profile |-> "backend"],
     [kind |-> "Start", file |-> None, app |-> "web", selector |-> Service("api")],
     [kind |-> "Stop", app |-> "web", selector |-> Service("api")],
     [kind |-> "Restart", app |-> "web", selector |-> Service("api")]}

NextConc ==
    \/ \E h \in Handlers : Connection(h, ConcRequests)
    \/ Background

SpecConc == Init /\ [][NextConc]_vars

\* One client at a time sending the requests of a small session, under the
\* scheduling the runtime gives: the interval of tick_loop fires again and
\* again, the tokio Mutex is fair (a tick that waits for the table lock gets
\* it although connection tasks keep taking it) and refresh runs to its end;
\* a connection task that holds the table lock reaches the state write that
\* ends its call.
FairRequests ==
    {[kind |-> "Up", file |-> "web.yaml", profile |-> None],
     [kind |-> "Up", file |-> "web.yaml", profile |-> "backend"],
     [kind |-> "Start", file |-> None, app |-> None, selector |-> Service("api")],
     [kind |-> "Stop", app |-> None, selector |-> Service("worker")]}

NextFair ==
    \/ Connection(1, FairRequests)
    \/ Background

SpecFair ==
    /\ Init /\ [][NextFair]_vars
    /\ SF_vars(RefreshReap)
    /\ WF_vars(RefreshApply)
    /\ WF_vars(StartWrite(1))
    /\ WF_vars(StopWrite(1))

----------------------------------------------------------------------------
(* A log session: one client brings the service "api" up, again and again,
   the children write lines and exit, and a second client asks for the logs *)

LogsSupervisorRequests ==
    {[kind |-> "Up", file |-> "web.yaml", profile |-> "backend"]}

\* the steps of connection task h when the requests are Up requests: the
\* insert_app of Up clears the pid, so that start_service has none to kill
UpConnection(h, reqs) ==
    \/ \E req \in reqs : Register(h, req)
    \/ ResolveServices(h)
    \/ ReplyAck(h)
    \/ StartRead(h)
    \/ StartLock(h)
    \/ StartWrite(h)

\* the tick task and the child processes, none of which was stopped
UpBackground ==
    \/ RefreshReap
    \/ RefreshApply
    \/ \E c \in DOMAIN children, code \in ExitCodes : ChildExit(c, code)

\* protocol.rs Request::Logs
LogsRequests ==
    [kind : {"Logs"}, app : {None}, follow : BOOLEAN, tail : {Nil},
     selector : {Service("api"), Service("ghost")}]

\* the reader tasks of the children
Readers ==
    \E pid \in DOMAIN children, stream \in LogStream : PushLog(pid, stream)

\* the connection task h serving a Logs request, and its client
LogsConnection(h) ==
    \/ \E req \in LogsRequests : LogsResolve(h, req)
    \/ LogsHistory(h)
    \/ LogsSender(h)
    \/ LogsWriteHistory(h)
    \/ \E i \in 1..2 : Forward(h, i)
    \/ StreamEnd(h)
    \/ ClientDisconnect(h)

NextLogs ==
    \/ UpConnection(1, LogsSupervisorRequests)
    \/ UpBackground
    \/ Readers
    \/ LogsConnection(2)

SpecLogs == Init /\ [][NextLogs]_vars

\* the steps the daemon's tasks take for the Logs session of connection h
LogsTasks(h) ==
    \/ LogsHistory(h)
    \/ LogsSender(h)
    \/ LogsWriteHistory(h)
    \/ \E i \in 1..2 : Forward(h, i)
    \/ StreamEnd(h)

\* The same, with the runtime scheduling every task of the session that can
\* take a step and the tick running as in SpecFair, so that a child that
\* exited is reaped and its channel closed.  Nothing makes a child write a
\* line or exit, and nothing makes the client leave.
SpecLogsFair ==
    /\ SpecLogs
    /\ WF_vars(LogsTasks(2))
    /\ SF_vars(RefreshReap)
    /\ WF_vars(RefreshApply)

----------------------------------------------------------------------------
(* One forwarder of stream_logs behind a busy channel.  The entries are
   counted, not kept: the n-th entry published is n. *)

\* how far past the capacity of the channel the reader tasks publish
MaxLag == 2

\* stream_logs line 134: the forwarder was spawned with the Receiver that
\* subscribe() made; nothing is published yet
ForwarderStart ==
    [fn |-> "forwarder", published |-> 0, next |-> 1, live |-> TRUE,
     lagged |-> FALSE, delivered |-> 0]

\* stream_logs lines 135-141: while let Ok(entry) = sub.receiver.recv().await
\* { tx.send(..) }: Ok(entry) is sent on; Err(Lagged) ends the loop as
\* Err(Closed) does, and the task returns
recv_loop(f) ==
    IF lagged(f.published, f.next)
    THEN [f EXCEPT !.lagged = TRUE, !.live = FALSE]
    ELSE [f EXCEPT !.next = f.next + 1, !.delivered = f.next]

lag_unchanged ==
    UNCHANGED <<state, runtimes, runtimes_lock, children, next_pid, conn, tick,
                client, locks, log_vars>>

\* supervisor.rs line 243: a reader task publishes an entry
LagSend ==
    /\ call.fn = "forwarder"
    /\ call.published < BROADCAST_CAPACITY + MaxLag
    /\ call' = [call EXCEPT !.published = @ + 1]
    /\ lag_unchanged

\* one turn of the forwarder's loop, when recv() has something to return
LagRecv ==
    /\ call.fn = "forwarder"
    /\ call.live
    /\ call.next <= call.published
    /\ call' = recv_loop(call)
    /\ lag_unchanged

InitLag ==
    /\ call = ForwarderStart
    /\ client = NoClient
    /\ locks = NoLocks
    /\ log_tx = <<>>
    /\ session = [h \in Handlers |-> IdleSession]
    /\ log_buffer = LogBuffer_new(LOG_BUFFER_CAPACITY)
    /\ pushed = <<>>
    /\ state = DaemonState_default
    /\ runtimes = <<>>
    /\ runtimes_lock = 0
    /\ children = <<>>
    /\ next_pid = 1
    /\ conn = [h \in Handlers |-> IdleConn]
    /\ tick = [pc |-> "idle", updates |-> {}]

NextLag ==
    \/ LagSend
    \/ LagRecv

SpecLag == InitLag /\ [][NextLag]_vars

----------------------------------------------------------------------------
(* The read-only calls of the Daemon, applied to catalogs of several apps *)

\* register_app: load_compose + insert_app, as up and start do first
RegisterApp(file) ==
    /\ state' = insert_app(state, load_compose(file))
    /\ call' = NoCall
    /\ UNCHANGED <<runtimes, runtimes_lock, children, next_pid, conn, tick, client, locks, log_vars>>

\* Daemon::resolve_app under the state read guard
CallResolveApp(app) ==
    /\ call' = [fn |-> "resolve_app", app |-> app, ret |-> resolve_app(state, app)]
    /\ UNCHANGED <<state, runtimes, runtimes_lock, children, next_pid, conn, tick, client, locks, log_vars>>

\* Daemon::resolve_services under the state read guard
CallResolveServices(app, selector) ==
    /\ \E keys \in services_keys(state, app) :
        call' = [fn |-> "resolve_services", app |-> app, selector |-> selector,
                 ret |-> resolve_services(state, app, selector, keys)]
    /\ UNCHANGED <<state, runtimes, runtimes_lock, children, next_pid, conn, tick, client, locks, log_vars>>

\* Daemon::status under the state read guard
CallStatus(app, selector) ==
    /\ \E order \in HashOrders(state) :
        call' = [fn |-> "status", app |-> app, selector |-> selector,
                 ret |-> status(state, app, selector, order)]
    /\ UNCHANGED <<state, runtimes, runtimes_lock, children, next_pid, conn, tick, client, locks, log_vars>>

\* the app arguments and selectors of the read-only calls
CallApps == {None, "web", "db", "ghost"}

CallSelectors ==
    {All, Service("api"), Service("worker"), Service("store"), Service("ghost"),
     Services(<<>>), Services(<<"worker", "api">>), Services(<<"api", "ghost">>),
     Services(<<"ghost", "api">>), Profile("backend"), Profile("nope")}

NextCalls ==
    \/ \E file \in AllFiles : RegisterApp(file)
    \/ \E app \in CallApps : CallResolveApp(app)
    \/ \E app \in CallApps \ {None}, selector \in CallSelectors :
            CallResolveServices(app, selector)
    \/ \E app \in CallApps, selector \in CallSelectors : CallStatus(app, selector)

SpecCalls == Init /\ [][NextCalls]_vars


-----------------------------------------------------------------------------
(* handle_connection, seen from the peer: one request, the lines written back *)

\* Daemon::profiles: the profile names of the resolved app (sorted, so the
\* set of them says what the list is)
profiles(st, app) ==
    LET app_name == resolve_app(st, app)
    IN IF ~app_name.ok THEN app_name
       ELSE IF app_name.value \notin DOMAIN st.apps THEN Err("AppNotFound")
       ELSE Ok(DOMAIN st.apps[app_name.value].profiles)

\* protocol.rs Request, the variants that only read the daemon
QueryRequests ==
    [kind : {"DashAttach"}]
    \cup [kind : {"Status"}, app : AppArgs, selector : {All, Service("ghost")}]
    \cup [kind : {"Profiles"}, app : {None, "ghost"}]

\* the one response of the arms DashAttach, Status and Profiles
query_response(st, req, order) ==
    CASE req.kind = "DashAttach" -> ResponseAck
      [] req.kind = "Status" ->
            LET r == status(st, req.app, req.selector, order)
            IN IF r.ok THEN ResponseStatusSnapshot(r.value) ELSE ResponseError(r.value)
      [] req.kind = "Profiles" ->
            LET r == profiles(st, req.app)
            IN IF r.ok THEN ResponseProfilesList(r.value) ELSE ResponseError(r.value)

\* a DashAttach, Status or Profiles request is read and answered
Query(h, req) ==
    /\ conn[h].pc = "idle"
    /\ \E order \in HashOrders(state) :
        served(h, req, <<query_response(state, req, order)>>)
    /\ UNCHANGED <<state, runtimes, runtimes_lock, children, next_pid, conn, tick,
                   call, locks, log_vars>>

\* what a peer can do instead of sending a request: close the connection
\* (read_line returns 0 bytes) or send a line that is not a Request
BadLines == {"eof", "invalid"}

\* a handler that answers a line it cannot parse
bad_line_error(line) ==
    IF line = "eof" THEN <<>> ELSE <<ResponseError("invalid request")>>

\* what handle_connection writes back before it returns at line 29 (Ok) or
\* at line 31 (the parse error, logged by the task serve spawned)
bad_line_responses(line) == <<>>

\* the peer of task h closes or sends an invalid line: the task returns and
\* serve, which never awaits it, goes on accepting
BadLine(h, line) ==
    /\ conn[h].pc = "idle"
    /\ client' = [client EXCEPT !.request[h] = None,
                                !.lines[h] = bad_line_responses(line),
                                !.bad[h] = TRUE]
    /\ UNCHANGED <<state, runtimes, runtimes_lock, children, next_pid, conn, tick,
                   call, locks, log_vars>>

\* the requests sent by the peers that are followed
ReplyRequests ==
    {[kind |-> "Up", file |-> "web.yaml", profile |-> "backend"],
     [kind |-> "Up", file |-> "web.yaml", profile |-> "nope"],
     [kind |-> "Start", file |-> None, app |-> None, selector |-> Service("api")],
     [kind |-> "Stop", app |-> None, selector |-> Service("api")],
     [kind |-> "Restart", app |-> "web", selector |-> Service("api")]}

InitReply ==
    /\ client = Peers
    /\ locks = NoLocks
    /\ call = NoCall
    /\ log_tx = <<>>
    /\ session = [h \in Handlers |-> IdleSession]
    /\ log_buffer = LogBuffer_new(LOG_BUFFER_CAPACITY)
    /\ pushed = <<>>
    /\ state = DaemonState_default
    /\ runtimes = <<>>
    /\ runtimes_lock = 0
    /\ children = <<>>
    /\ next_pid = 1
    /\ conn = [h \in Handlers |-> IdleConn]
    /\ tick = [pc |-> "idle", updates |-> {}]

NextReply ==
    \/ Connection(1, ReplyRequests)
    \/ \E req \in QueryRequests : Query(1, req)
    \/ \E line \in BadLines : BadLine(1, line)
    \/ Background

SpecReply == InitReply /\ [][NextReply]_vars

\* start_service called with any pair of names, as its signature allows:
\* (app: &str, service: &str)
CallStart(h, app, service) ==
    /\ conn[h].pc = "idle"
    /\ conn' = [conn EXCEPT ![h] =
            [IdleConn EXCEPT !.pc = "loop", !.kind = "Start", !.app_name = app,
                             !.services = <<service>>, !.idx = 1]]
    /\ served(h, [kind |-> "Start"], <<>>)
    /\ UNCHANGED <<state, runtimes, runtimes_lock, children, next_pid, tick>>
    /\ UNCHANGED <<call, locks, log_vars>>

\* start_service on its own, on a catalog an Up filled, against the tick and
\* the children
NextStart ==
    \/ \E app \in {"web", "nope"}, service \in {"api", "nope"} : CallStart(1, app, service)
    \/ Register(1, [kind |-> "Up", file |-> "web.yaml", profile |-> "backend"])
    \/ ResolveServices(1)
    \/ ReplyAck(1)
    \/ StartRead(1)
    \/ StartKill(1)
    \/ StartLock(1)
    \/ StartWrite(1)
    \/ RefreshReap
    \/ RefreshApply
    \/ \E c \in DOMAIN children, code \in ExitCodes : ChildExit(c, code)

SpecStart == InitReply /\ [][NextStart]_vars

----------------------------------------------------------------------------
(* A LogBuffer on its own: any capacity, any sequence of pushes *)

\* the lines pushed
Lines == {"a", "b"}

InitLogBuffer ==
    /\ log_buffer \in {LogBuffer_new(capacity) : capacity \in 0..MaxCapacity}
    /\ pushed = <<>>
    /\ log_tx = <<>>
    /\ session = [h \in Handlers |-> IdleSession]
    /\ state = DaemonState_default
    /\ runtimes = <<>>
    /\ runtimes_lock = 0
    /\ children = <<>>
    /\ next_pid = 1
    /\ conn = [h \in Handlers |-> IdleConn]
    /\ tick = [pc |-> "idle", updates |-> {}]
    /\ call = NoCall
    /\ client = NoClient
    /\ locks = NoLocks

\* LogBuffer::push
Push(entry) ==
    /\ Len(pushed) < MaxPushes
    /\ log_buffer' = LogBuffer_push(log_buffer, entry)
    /\ pushed' = Append(pushed, entry)
    /\ UNCHANGED <<state, runtimes, runtimes_lock, children, next_pid, conn, tick,
                   query_vars, log_tx, session>>

\* the counts tail is asked for: none, fewer than, as many as and more than
\* the buffer can hold
TailCounts == 0..(MaxCapacity + 1)

\* LogBuffer::tail, which borrows the buffer immutably
CallTail(count) ==
    /\ call' = [fn |-> "tail", count |-> count, ret |-> LogBuffer_tail(log_buffer, count)]
    /\ UNCHANGED <<state, runtimes, runtimes_lock, children, next_pid, conn, tick, client, locks, log_vars>>

NextLogBuffer ==
    \/ \E entry \in Lines : Push(entry)
    \/ \E count \in TailCounts : CallTail(count)

SpecLogBuffer == InitLogBuffer /\ [][NextLogBuffer]_vars

-----------------------------------------------------------------------------
(* The CLI side of the socket: ipc/client.rs *)

\* pings ensure_daemon retries after the first one failed
DAEMON_RETRY_ATTEMPTS == 15

\* what a ping can meet: a response line of some kind, a Response::Error, no
\* answer within the second of the timeout, or a connect that fails
PingReplies ==
    {"Ack", "StatusSnapshot", "ProfilesList", "LogChunk", "Error", "timeout", "refused"}

\* ping_daemon: Err unless a response other than Response::Error came in time
ping_daemon(reply) ==
    IF reply \in {"timeout", "refused"} THEN Err("DaemonNotRunning")
    ELSE IF reply = "Error" THEN Err("Usage")
    ELSE Ok("unit")

\* the replies a ping can get: a connect needs the socket file
replies(socket) == IF socket THEN PingReplies ELSE {"refused"}

\* ensure_daemon is entered; socket tells whether the socket file exists
EnsureStart(socket) ==
    [pc |-> "ensure_app_dir", socket |-> socket, attempt |-> 0, pings |-> 0,
     ping_ok |-> FALSE, first_ok |-> FALSE, running |-> Nil, spawned |-> 0,
     removed |-> FALSE, ret |-> Nil]

ensure_unchanged ==
    UNCHANGED <<state, runtimes, runtimes_lock, children, next_pid, conn, tick,
                call, locks, log_vars>>

\* ensure_daemon returns
ensure_returns(c, ret) == [c EXCEPT !.pc = "done", !.ret = ret]

\* ensure_app_dir()?
EnsureAppDir ==
    /\ client.pc = "ensure_app_dir"
    /\ \E created_dir \in BOOLEAN :
        client' = IF created_dir THEN [client EXCEPT !.pc = "ping"]
                  ELSE ensure_returns(client, Err("Io"))
    /\ ensure_unchanged

\* if ping_daemon().await.is_ok() { return Ok(()) }
FirstPing ==
    /\ client.pc = "ping"
    /\ \E reply \in replies(client.socket) :
        LET pinged == [client EXCEPT !.pings = @ + 1, !.ping_ok = ping_daemon(reply).ok,
                                     !.first_ok = ping_daemon(reply).ok]
        IN  client' = IF ping_daemon(reply).ok THEN ensure_returns(pinged, Ok("unit"))
                      ELSE [pinged EXCEPT !.pc = "cleanup"]
    /\ ensure_unchanged

\* cleanup_socket_if_stale: the socket file goes if no daemon process is seen
CleanupSocketIfStale ==
    /\ client.pc = "cleanup"
    /\ \E daemon_process_running \in BOOLEAN :
        client' = IF client.socket /\ ~daemon_process_running
                  THEN [client EXCEPT !.pc = "spawn", !.socket = FALSE, !.removed = TRUE]
                  ELSE [client EXCEPT !.pc = "spawn"]
    /\ ensure_unchanged

\* whether ensure_daemon spawns a daemon, given what daemon_process_running saw
should_spawn_always(daemon_process_running) == TRUE

should_spawn(daemon_process_running) == ~daemon_process_running

\* if !daemon_process_running() { spawn_daemon()? }
SpawnDaemon ==
    /\ client.pc = "spawn"
    /\ \E daemon_process_running \in BOOLEAN, spawn_ok \in BOOLEAN :
        LET seen == [client EXCEPT !.running = Some(daemon_process_running)]
        IN  client' =
                IF ~should_spawn(daemon_process_running) THEN [seen EXCEPT !.pc = "retry"]
                ELSE IF spawn_ok THEN [seen EXCEPT !.pc = "retry", !.spawned = @ + 1]
                ELSE ensure_returns(seen, Err("Io"))
    /\ ensure_unchanged

\* whether the retry loop has another round
retry_again(attempt) == attempt < DAEMON_RETRY_ATTEMPTS

\* for _ in 0..DAEMON_RETRY_ATTEMPTS { if ping is ok return Ok; sleep },
\* then Err(DaemonNotRunning)
RetryPing ==
    /\ client.pc = "retry"
    /\ IF retry_again(client.attempt)
       THEN \E reply \in replies(client.socket) :
                LET pinged == [client EXCEPT !.pings = @ + 1,
                                             !.ping_ok = ping_daemon(reply).ok]
                IN  client' = IF ping_daemon(reply).ok
                              THEN ensure_returns(pinged, Ok("unit"))
                              ELSE [pinged EXCEPT !.attempt = @ + 1]
       ELSE client' = ensure_returns(client, Err("DaemonNotRunning"))
    /\ ensure_unchanged

\* a daemon (spawned by this client or by another one) binds the socket
DaemonBinds ==
    /\ client.pc \in {"spawn", "retry"}
    /\ ~client.socket
    /\ client' = [client EXCEPT !.socket = TRUE]
    /\ ensure_unchanged

\* the steps of ensure_daemon
EnsureDaemon ==
    \/ EnsureAppDir
    \/ FirstPing
    \/ CleanupSocketIfStale
    \/ SpawnDaemon
    \/ RetryPing

InitEnsure ==
    /\ client \in {EnsureStart(socket) : socket \in BOOLEAN}
    /\ locks = NoLocks
    /\ call = NoCall
    /\ log_tx = <<>>
    /\ session = [h \in Handlers |-> IdleSession]
    /\ log_buffer = LogBuffer_new(LOG_BUFFER_CAPACITY)
    /\ pushed = <<>>
    /\ state = DaemonState_default
    /\ runtimes = <<>>
    /\ runtimes_lock = 0
    /\ children = <<>>
    /\ next_pid = 1
    /\ conn = [h \in Handlers |-> IdleConn]
    /\ tick = [pc |-> "idle", updates |-> {}]

NextEnsure ==
    \/ EnsureDaemon
    \/ DaemonBinds

\* every step of ensure_daemon returns in bounded time: the ping within the
\* second of its timeout, the sleep after 300 ms
SpecEnsure == InitEnsure /\ [][NextEnsure]_vars /\ WF_vars(EnsureDaemon)

-----------------------------------------------------------------------------
(* Two CLI processes in ensure_daemon at once, and the daemons they spawn:
   ipc/client.rs ensure_daemon against daemon/server.rs run_daemon *)

\* the CLI processes; the daemon a client spawns is named after it
Clients == {"cli1", "cli2"}

\* no socket file
NoSocket == "none"

\* both clients enter ensure_daemon; no daemon process, no socket file
RaceStart ==
    [pc |-> "race",
     cli |-> [c \in Clients |-> [pc |-> "ping", attempt |-> 0, running |-> Nil, ret |-> Nil]],
     daemon |-> [d \in Clients |-> "none"],
     socket |-> NoSocket]

\* the daemon processes that exist
daemon_processes(daemon) == {d \in Clients : daemon[d] \in {"started", "unlinked", "listening"}}

\* daemon_process_running: some process has "servinel" and "daemon" in its
\* command line
daemon_process_running(daemon) == daemon_processes(daemon) # {}

\* the socket file exists and the daemon that bound it accepts connections
serving(r) == r.socket # NoSocket /\ r.daemon[r.socket] = "listening"

\* what a ping meets: the daemon behind the socket file answers DashAttach
\* or does not answer in time; without such a daemon the connect fails
race_replies(r) == IF serving(r) THEN {"Ack", "timeout"} ELSE {"refused"}

\* if ping_daemon().await.is_ok() { return Ok(()) }
RacePing(c) ==
    /\ client.pc = "race"
    /\ client.cli[c].pc = "ping"
    /\ \E reply \in race_replies(client) :
        client' = IF ping_daemon(reply).ok
                  THEN [client EXCEPT !.cli[c].pc = "done", !.cli[c].ret = Ok("unit")]
                  ELSE [client EXCEPT !.cli[c].pc = "cleanup"]
    /\ ensure_unchanged

\* cleanup_socket_if_stale: socket.exists() && !daemon_process_running()
RaceCleanup(c) ==
    /\ client.pc = "race"
    /\ client.cli[c].pc = "cleanup"
    /\ client' = [client EXCEPT
            !.cli[c].pc = "scan",
            !.socket = IF @ # NoSocket /\ ~daemon_process_running(client.daemon)
                       THEN NoSocket ELSE @]
    /\ ensure_unchanged

\* line 20: daemon_process_running() scans the process table
RaceScan(c) ==
    /\ client.pc = "race"
    /\ client.cli[c].pc = "scan"
    /\ client' = [client EXCEPT
            !.cli[c].pc = "spawn",
            !.cli[c].running = Some(daemon_process_running(client.daemon))]
    /\ ensure_unchanged

\* line 21: spawn_daemon()?, if the scan saw no daemon process
RaceSpawn(c) ==
    /\ client.pc = "race"
    /\ client.cli[c].pc = "spawn"
    /\ client' = [client EXCEPT
            !.cli[c].pc = "retry",
            !.daemon[c] = IF should_spawn(client.cli[c].running[1])
                          THEN "started" ELSE @]
    /\ ensure_unchanged

\* the retry loop of ensure_daemon
RaceRetry(c) ==
    /\ client.pc = "race"
    /\ client.cli[c].pc = "retry"
    /\ IF retry_again(client.cli[c].attempt)
       THEN \E reply \in race_replies(client) :
                client' = IF ping_daemon(reply).ok
                          THEN [client EXCEPT !.cli[c].pc = "done",
                                              !.cli[c].ret = Ok("unit")]
                          ELSE [client EXCEPT !.cli[c].attempt = @ + 1]
       ELSE client' = [client EXCEPT !.cli[c].pc = "done",
                                     !.cli[c].ret = Err("DaemonNotRunning")]
    /\ ensure_unchanged

\* run_daemon lines 279-282: if socket.exists() { remove_file(&socket) }
remove_socket(r) == NoSocket

\* run_daemon up to the bind
RunDaemonRemove(d) ==
    /\ client.pc = "race"
    /\ client.daemon[d] = "started"
    /\ client' = [client EXCEPT !.daemon[d] = "unlinked", !.socket = remove_socket(client)]
    /\ ensure_unchanged

\* UnixListener::bind(socket)?: fails with AddrInUse when the file exists,
\* and run_daemon returns the error; else the daemon serves
RunDaemonBind(d) ==
    /\ client.pc = "race"
    /\ client.daemon[d] = "unlinked"
    /\ client' = IF client.socket # NoSocket
                 THEN [client EXCEPT !.daemon[d] = "exited"]
                 ELSE [client EXCEPT !.daemon[d] = "listening", !.socket = d]
    /\ ensure_unchanged

InitRace ==
    /\ client = RaceStart
    /\ locks = NoLocks
    /\ call = NoCall
    /\ log_tx = <<>>
    /\ session = [h \in Handlers |-> IdleSession]
    /\ log_buffer = LogBuffer_new(LOG_BUFFER_CAPACITY)
    /\ pushed = <<>>
    /\ state = DaemonState_default
    /\ runtimes = <<>>
    /\ runtimes_lock = 0
    /\ children = <<>>
    /\ next_pid = 1
    /\ conn = [h \in Handlers |-> IdleConn]
    /\ tick = [pc |-> "idle", updates |-> {}]

NextRace ==
    \/ \E c \in Clients : RacePing(c)
    \/ \E c \in Clients : RaceCleanup(c)
    \/ \E c \in Clients : RaceScan(c)
    \/ \E c \in Clients : RaceSpawn(c)
    \/ \E c \in Clients : RaceRetry(c)
    \/ \E d \in Clients : RunDaemonRemove(d)
    \/ \E d \in Clients : RunDaemonBind(d)

SpecRace == InitRace /\ [][NextRace]_vars

-----------------------------------------------------------------------------
(* The client's stream_logs *)

\* lines the client reads before the model stops feeding it
MaxReceived == 3

\* the lines a server can send: responses of every kind, and a line that
\* does not parse as a Response
ClientLines ==
    {ResponseLogChunk(chunk) : chunk \in {"a", "b"}}
        \cup {ResponseAck, ResponseError("no such service"),
              [tag |-> "ProfilesList"], [tag |-> "invalid"]}

\* stream_logs has connected and written its request
StreamStart == [pc |-> "read_line", received |-> <<>>, on_chunk |-> <<>>, ret |-> Nil]

\* stream_logs returns
stream_returns(c, ret) == [c EXCEPT !.pc = "done", !.ret = ret]

\* a client that reads on after an Ack
on_line_past_ack(c, line) ==
    IF line.tag = "LogChunk" THEN [c EXCEPT !.on_chunk = Append(@, line.chunk)]
    ELSE IF line.tag = "Error" THEN stream_returns(c, Err(line.msg))
    ELSE c

\* the body of the loop for a line that was read: serde_json::from_str and
\* the match on the response
on_line(c, line) ==
    IF line.tag = "invalid" THEN stream_returns(c, Err("Json"))
    ELSE IF line.tag = "LogChunk" THEN [c EXCEPT !.on_chunk = Append(@, line.chunk)]
    ELSE IF line.tag = "Ack" THEN stream_returns(c, Ok("unit"))
    ELSE IF line.tag = "Error" THEN stream_returns(c, Err(line.msg))
    ELSE c

\* read_line returns a line
StreamLine(line) ==
    /\ client.pc = "read_line"
    /\ Len(client.received) < MaxReceived
    /\ client' = on_line([client EXCEPT !.received = Append(@, line)], line)
    /\ ensure_unchanged

\* read_line returns 0 bytes: the server closed the connection
StreamEof ==
    /\ client.pc = "read_line"
    /\ client' = stream_returns(client, Ok("unit"))
    /\ ensure_unchanged

InitStream ==
    /\ client = StreamStart
    /\ locks = NoLocks
    /\ call = NoCall
    /\ log_tx = <<>>
    /\ session = [h \in Handlers |-> IdleSession]
    /\ log_buffer = LogBuffer_new(LOG_BUFFER_CAPACITY)
    /\ pushed = <<>>
    /\ state = DaemonState_default
    /\ runtimes = <<>>
    /\ runtimes_lock = 0
    /\ children = <<>>
    /\ next_pid = 1
    /\ conn = [h \in Handlers |-> IdleConn]
    /\ tick = [pc |-> "idle", updates |-> {}]

NextStream ==
    \/ \E line \in ClientLines : StreamLine(line)
    \/ StreamEof

SpecStream == InitStream /\ [][NextStream]_vars

-----------------------------------------------------------------------------
(* run_daemon: the state a daemon starts from *)

\* DaemonState::save: the catalog as JSON; #[serde(skip)] leaves the logs out
save(st) ==
    [apps |-> [a \in DOMAIN st.apps |->
        [st.apps[a] EXCEPT !.services = [n \in DOMAIN @ |->
            [status |-> @[n].status, pid |-> @[n].pid,
             started_at |-> @[n].started_at, exit_code |-> @[n].exit_code]]]]]

\* DaemonState::load: the default state without a state.json; else what the
\* file holds, every service with the logs serde gives a skipped field
\* (LogBuffer::default) and, outside the model, default metrics
load(state_json) ==
    IF state_json = Nil THEN DaemonState_default
    ELSE LET saved == state_json[1] IN
         [apps |-> [a \in DOMAIN saved.apps |->
            [saved.apps[a] EXCEPT !.services = [n \in DOMAIN @ |->
                [status |-> @[n].status, pid |-> @[n].pid,
                 started_at |-> @[n].started_at, exit_code |-> @[n].exit_code,
                 logs |-> LogBuffer_new(LOG_BUFFER_CAPACITY)]]]]]

\* Daemon::new
Daemon_new(state_json) == DaemonState_default

\* what a service went through before the last save of an earlier daemon
Histories == {"registered", "running", "logged", "exited", "stopped"}

\* the catalog after the service went through history what, as child pid
lived(st, app, service, pid, what) ==
    LET running == start_service_write(st, app, service, pid)
        logged == push_log(running, app, service, [stream |-> "Stdout", line |-> pid])
    IN CASE what = "registered" -> st
         [] what = "running" -> running
         [] what = "logged" -> logged
         [] what = "exited" ->
                apply_update(logged, [app |-> app, service |-> service, exit_code |-> Some(1)])
         [] what = "stopped" -> stop_service_write(logged, app, service)

\* the states an earlier daemon was in when it saved for the last time
SavedStates ==
    {LET compose == load_compose(file)
         app == compose.app_name
         st0 == insert_app(DaemonState_default, compose)
         st1 == lived(st0, app, compose.services[1], 1, what[1])
         st2 == lived(st1, app, compose.services[2], 2, what[2])
     IN IF others THEN insert_app(st2, load_compose(CHOOSE f \in AllFiles : f # file))
        ELSE st2 :
        file \in AllFiles, what \in Histories \X Histories, others \in BOOLEAN}

\* run_daemon is called: an earlier daemon left a state.json, or none did
InitBoot ==
    /\ \/ /\ state \in SavedStates
          /\ call = [fn |-> "run_daemon", pc |-> "new", state_json |-> Some(save(state))]
       \/ /\ state = DaemonState_default
          /\ call = [fn |-> "run_daemon", pc |-> "new", state_json |-> Nil]
    /\ client = NoClient
    /\ locks = NoLocks
    /\ log_tx = <<>>
    /\ session = [h \in Handlers |-> IdleSession]
    /\ log_buffer = LogBuffer_new(LOG_BUFFER_CAPACITY)
    /\ pushed = <<>>
    /\ runtimes = <<>>
    /\ runtimes_lock = 0
    /\ children = <<>>
    /\ next_pid = 1
    /\ conn = [h \in Handlers |-> IdleConn]
    /\ tick = [pc |-> "idle", updates |-> {}]

\* run_daemon line 284: Arc::new(Daemon::new())
DaemonNew ==
    /\ call.pc = "new"
    /\ state' = Daemon_new(call.state_json)
    /\ call' = [call EXCEPT !.pc = "serve"]
    /\ UNCHANGED <<runtimes, runtimes_lock, children, next_pid, conn, tick, client,
                   locks, log_vars>>

NextBoot == DaemonNew

SpecBoot == InitBoot /\ [][NextBoot]_vars

-----------------------------------------------------------------------------
(* validate_compose, applied to manifests of every shape *)

\* the longest list of services, and the longest list of a profile, tried
MaxServices == 2

\* the sequences over S of at most n elements
SeqsUpTo(S, n) == UNION {[1..k -> S] : k \in 0..n}

\* str::trim, for the strings of the manifests: the ones of blanks only
\* become empty
trim(s) == IF s = " " THEN "" ELSE s

\* the manifests serde_yaml can hand to the validator
Manifests ==
    [app_name : {"", " ", "web", "db"},
     services : SeqsUpTo({"", "api", "worker"}, MaxServices),
     profiles : {<<>>} \cup {"backend" :> names :
                                names \in SeqsUpTo({"api", "ghost"}, MaxServices)}]

\* a validator without the loop over the profiles
validate_compose_without_profiles(compose) ==
    IF trim(compose.app_name) = "" THEN Err("app_name is required")
    ELSE IF \E i \in DOMAIN compose.services : trim(compose.services[i]) = ""
    THEN Err("service name cannot be empty")
    ELSE IF \E i, j \in DOMAIN compose.services :
                i < j /\ compose.services[i] = compose.services[j]
    THEN Err("duplicate service name")
    ELSE Ok("unit")

\* compose.rs validate_compose; which of several errors is reported depends
\* on the order of the loops, which no claim is about: the first kind of
\* error in the order of the code is
validate_compose(compose) ==
    IF trim(compose.app_name) = "" THEN Err("app_name is required")
    ELSE IF \E i \in DOMAIN compose.services :
                /\ trim(compose.services[i]) = ""
                /\ \A j, k \in 1..(i - 1) : j < k => compose.services[j] # compose.services[k]
    THEN Err("service name cannot be empty")
    ELSE IF \E i, j \in DOMAIN compose.services :
                i < j /\ compose.services[i] = compose.services[j]
    THEN Err("duplicate service name")
    ELSE IF \E p \in DOMAIN compose.profiles : \E i \in DOMAIN compose.profiles[p] :
                compose.profiles[p][i] \notin Range(compose.services)
    THEN Err("profile references unknown service")
    ELSE Ok("unit")

\* Daemon::up lines 32-35: load_compose (parse, validate) and, when it
\* returned Ok, register_app
LoadCompose(compose) ==
    LET valid == validate_compose(compose)
        ret == IF valid.ok THEN Ok(compose) ELSE valid
    IN
    /\ call' = [fn |-> "load_compose", ret |-> ret]
    /\ state' = IF ret.ok THEN insert_app(state, ret.value) ELSE state
    /\ UNCHANGED <<runtimes, runtimes_lock, children, next_pid, conn, tick, client,
                   locks, log_vars>>

NextCompose == \E compose \in Manifests : LoadCompose(compose)

SpecCompose == Init /\ [][NextCompose]_vars

-----------------------------------------------------------------------------
(* The daemon's locks on their own: what each task holds while it waits *)

\* the tasks that take the locks: two connection tasks, the tick task and a
\* reader task of a child's pipe
LockTasks == {"conn1", "conn2", "tick", "reader"}

\* the state RwLock (read and write guards), the table Mutex, the sampler Mutex
LockNames == {"state.read", "state.write", "runtimes", "system"}

resource(lock) == IF lock \in {"state.read", "state.write"} THEN "state" ELSE lock

Resources == {resource(lock) : lock \in LockNames}

\* `.lock().await`, `.read().await`, `.write().await`, and the drop of the guard
Acquire(lock) == [op |-> "acquire", lock |-> lock]
Release(lock) == [op |-> "release", lock |-> lock]

\* start_service, lines 40-60, 69, 103 and the drops at 109
start_service_locks ==
    <<Acquire("state.read"), Release("state.read"), Acquire("runtimes"),
      Acquire("state.write"), Release("state.write"), Release("runtimes")>>

\* start_service returning at line 71 (the key is in the table) or at line
\* 87 (spawn failed)
start_service_returns_locks ==
    <<Acquire("state.read"), Release("state.read"), Acquire("runtimes"),
      Release("runtimes")>>

\* stop_service, lines 113-117, 126, 133 and the drops at 139
stop_service_locks ==
    <<Acquire("state.read"), Release("state.read"), Acquire("runtimes"),
      Acquire("state.write"), Release("state.write"), Release("runtimes")>>

\* a refresh that asks for the state guard inside its block
refresh_locks_nested ==
    <<Acquire("runtimes"), Acquire("system"), Acquire("state.write"),
      Release("state.write"), Release("system"), Release("runtimes")>>

\* refresh: the block of lines 145-190 (its guards drop in reverse order of
\* their declaration), then line 193
refresh_locks ==
    <<Acquire("runtimes"), Acquire("system"), Release("system"), Release("runtimes"),
      Acquire("state.write"), Release("state.write")>>

\* a reader task pushing a line, spawn_log_task lines 242-244
push_log_locks == <<Acquire("state.write"), Release("state.write")>>

\* Daemon::status with an app: resolve_services, then line 113
status_locks ==
    <<Acquire("state.read"), Release("state.read"),
      Acquire("state.read"), Release("state.read")>>

\* a Daemon::logs that asks for the Sender inside the block of the history
logs_locks_nested ==
    <<Acquire("state.read"), Release("state.read"),
      Acquire("state.read"), Acquire("runtimes"), Release("runtimes"),
      Release("state.read")>>

\* Daemon::logs with an app and one service: resolve_services, the block of
\* lines 150-172, then log_sender (supervisor.rs 216-220)
logs_locks ==
    <<Acquire("state.read"), Release("state.read"),
      Acquire("state.read"), Release("state.read"),
      Acquire("runtimes"), Release("runtimes")>>

lock_program(fn) ==
    CASE fn = "start_service" -> start_service_locks
      [] fn = "start_service returns" -> start_service_returns_locks
      [] fn = "stop_service" -> stop_service_locks
      [] fn = "refresh" -> refresh_locks
      [] fn = "push_log" -> push_log_locks
      [] fn = "status" -> status_locks
      [] fn = "logs" -> logs_locks

\* what each task calls
lock_calls(t) ==
    CASE t = "tick" -> {"refresh"}
      [] t = "reader" -> {"push_log"}
      [] OTHER -> {"start_service", "start_service returns", "stop_service",
                   "status", "logs"}

\* no task is in a call, every lock is free
FreeLocks ==
    [pc |-> "locks",
     fn |-> [t \in LockTasks |-> None],
     at |-> [t \in LockTasks |-> 0],
     held |-> [t \in LockTasks |-> {}],
     queue |-> [r \in Resources |-> <<>>]]

locks_unchanged ==
    UNCHANGED <<state, runtimes, runtimes_lock, children, next_pid, conn, tick,
                call, client, log_vars>>

\* the operation task t is at
next_op(t) == lock_program(locks.fn[t])[locks.at[t]]

\* task t is in the queue of a lock
waits_for(t, r) == \E i \in DOMAIN locks.queue[r] : locks.queue[r][i] = t

\* task t went past an operation; past the last one its call returns
advanced(l, t) ==
    IF l.at[t] = Len(lock_program(l.fn[t]))
    THEN [l EXCEPT !.fn[t] = None, !.at[t] = 0]
    ELSE [l EXCEPT !.at[t] = @ + 1]

\* the guard can be handed out: a Mutex or a write guard when nobody holds
\* the lock, a read guard when no writer does
available(lock) ==
    IF lock = "state.read"
    THEN \A u \in LockTasks : "state.write" \notin locks.held[u]
    ELSE \A u \in LockTasks : \A held \in locks.held[u] : resource(held) # resource(lock)

\* task t calls fn
LockCall(t, fn) ==
    /\ locks.fn[t] = None
    /\ locks' = [locks EXCEPT !.fn[t] = fn, !.at[t] = 1]
    /\ locks_unchanged

\* task t asks for a guard: tokio's Mutex and RwLock queue the requests and
\* serve them first in, first out
LockRequest(t) ==
    /\ locks.fn[t] # None
    /\ next_op(t).op = "acquire"
    /\ ~waits_for(t, resource(next_op(t).lock))
    /\ locks' = [locks EXCEPT !.queue[resource(next_op(t).lock)] = Append(@, t)]
    /\ locks_unchanged

\* the request of task t is first in the queue and the guard is handed out
LockGrant(t) ==
    /\ locks.fn[t] # None
    /\ next_op(t).op = "acquire"
    /\ LET lock == next_op(t).lock
           r == resource(lock)
       IN /\ locks.queue[r] # <<>>
          /\ Head(locks.queue[r]) = t
          /\ available(lock)
          /\ locks' = advanced([locks EXCEPT !.queue[r] = Tail(@),
                                             !.held[t] = @ \cup {lock}], t)
    /\ locks_unchanged

\* task t drops a guard
LockRelease(t) ==
    /\ locks.fn[t] # None
    /\ next_op(t).op = "release"
    /\ locks' = advanced([locks EXCEPT !.held[t] = @ \ {next_op(t).lock}], t)
    /\ locks_unchanged

InitLocks ==
    /\ locks = FreeLocks
    /\ call = NoCall
    /\ client = NoClient
    /\ log_tx = <<>>
    /\ session = [h \in Handlers |-> IdleSession]
    /\ log_buffer = LogBuffer_new(LOG_BUFFER_CAPACITY)
    /\ pushed = <<>>
    /\ state = DaemonState_default
    /\ runtimes = <<>>
    /\ runtimes_lock = 0
    /\ children = <<>>
    /\ next_pid = 1
    /\ conn = [h \in Handlers |-> IdleConn]
    /\ tick = [pc |-> "idle", updates |-> {}]

\* the steps a task takes once it is in a call
LockSteps(t) ==
    \/ LockRequest(t)
    \/ LockGrant(t)
    \/ LockRelease(t)

NextLocks ==
    \/ \E t \in LockTasks : \E fn \in lock_calls(t) : LockCall(t, fn)
    \/ \E t \in LockTasks : LockSteps(t)

SpecLocks == InitLocks /\ [][NextLocks]_vars

\* The runtime schedules every task that can take a step; a critical section
\* awaits nothing but the next lock.  Nothing makes a task start a call.
SpecLocksFair == SpecLocks /\ \A t \in LockTasks : WF_vars(LockSteps(t))

----------------------------------------------------------------------------
(* Properties *)

\* every (app, service) the state store holds
Registered ==
    {k \in (DOMAIN state.apps) \X ServiceNames : has_service(state, k[1], k[2])}

service_state(k) == state.apps[k[1]].services[k[2]]

\* no start_service, stop_service or refresh call is in progress
Quiescent ==
    /\ \A h \in Handlers : ~InCall(conn[h])
    /\ tick.pc = "idle"

\* a child of key k that is still running
Running_child(k) == {c \in DOMAIN children : children[c].key = k /\ children[c].st = "alive"}

\* C1: whenever no start_service, stop_service or refresh call is in
\* progress, a service is recorded Running (or Starting) exactly if the
\* supervisor table holds a child handle for its key and its recorded pid
\* is Some.
C1_StatusIffHandleAndPid ==
    Quiescent =>
        \A k \in Registered :
            service_state(k).status \in {"Running", "Starting"}
            <=> (runtimes_contains_key(runtimes, k) /\ service_state(k).pid # Nil)

\* C1 witness: at rest, one service is Running with its handle and pid while
\* another one was reaped by a tick and is Exited without a handle
C1_Witness ==
    /\ Quiescent
    /\ \E k1, k2 \in Registered :
        /\ service_state(k1).status = "Running"
        /\ runtimes_contains_key(runtimes, k1)
        /\ service_state(k1).pid = Some(runtimes[k1])
        /\ service_state(k2).status = "Exited"
        /\ ~runtimes_contains_key(runtimes, k2)

\* C5: a service whose status is not Running or Starting has no started_at,
\* and update_service_status, applied to any service of any reachable state
\* with a status outside {Running, Starting}, leaves started_at = None.
C5_StartedAtOnlyWhenRunning ==
    \A k \in Registered :
        /\ service_state(k).status \notin {"Running", "Starting"}
            => service_state(k).started_at = None
        /\ \A new_status \in ServiceStatus \ {"Running", "Starting"} :
            update_service_status(service_state(k), new_status).started_at = None

\* C5 witness: a service with a start time next to one that was stopped
C5_Witness ==
    \E k1, k2 \in Registered :
        /\ service_state(k1).status = "Running"
        /\ service_state(k1).started_at = "Some"
        /\ service_state(k2).status = "Stopped"
        /\ Running_child(k2) = {}
        /\ \E c \in DOMAIN children : children[c].key = k2

\* C8: every service's status is one of Stopped, Running, Exited; Starting
\* and Unhealthy are never produced.
C8_NoStartingNoUnhealthy ==
    \A k \in Registered : service_state(k).status \in {"Stopped", "Running", "Exited"}

\* C8 witness: the three statuses the daemon produces have all been seen:
\* one service is Exited with its exit code, the other was started again
C8_Witness ==
    \E k1, k2 \in Registered :
        /\ service_state(k1).status = "Exited"
        /\ service_state(k1).exit_code = Some(1)
        /\ service_state(k2).status = "Running"
        /\ service_state(k2).pid = Some(2)

----------------------------------------------------------------------------
(* Steps of the supervisor calls, as seen from outside *)

\* the key connection task h is calling the supervisor for
call_key(c) == <<c.app_name, c.services[c.idx]>>

\* start_service(k) of task h returns Ok in this step without spawning:
\* it found a runtime for the key
StartReturnsExisting(h, k) ==
    /\ conn[h].pc = "ss_lock"
    /\ call_key(conn[h]) = k
    /\ conn'[h].pc = "loop"

\* start_service(k) of task h spawns in this step
StartSpawns(h, k) ==
    /\ conn[h].pc = "ss_lock"
    /\ call_key(conn[h]) = k
    /\ conn'[h].pc = "ss_write"

\* start_service(k) of task h returns Ok in this step after spawning
StartReturnsSpawned(h, k) ==
    /\ conn[h].pc = "ss_write"
    /\ call_key(conn[h]) = k
    /\ conn'[h].pc = "loop"

\* stop_service(k) of task h returns Ok in this step
StopReturns(h, k) ==
    /\ conn[h].pc = "st_write"
    /\ call_key(conn[h]) = k
    /\ conn'[h].pc = "loop"

Keys == {"web"} \X ServiceNames

\* C2: a second start_service call on a key, made while the first start is
\* still on record (the call read pid Some) and returning because the runtime
\* exists, leaves exactly one child of the key, that child running unless it
\* exited by itself, and the status Running.
C2_IdempotentStart ==
    [][\A h \in Handlers, k \in Keys :
        (StartReturnsExisting(h, k) /\ conn[h].pid # Nil) =>
            /\ runtimes_contains_key(runtimes', k)
            /\ LET c == runtimes'[k]
               IN \/ children'[c].st = "dead" /\ children'[c].code # Nil
                  \/ /\ Running_child(k)' = {c}
                     /\ state'.apps[k[1]].services[k[2]].status = "Running"]_vars

\* C3: when stop_service(app, service) returns, no child the supervisor
\* spawned for (app, service) is still running and the table holds no handle
\* for the key.
C3_StopLeavesNoChildRunning ==
    [][\A h \in Handlers, k \in Keys :
        StopReturns(h, k) =>
            /\ Running_child(k)' = {}
            /\ ~runtimes_contains_key(runtimes', k)]_vars

\* task h served an Up request and is about to write Ack
UpAcked(h) ==
    /\ conn[h].kind = "Up"
    /\ conn[h].pc = "loop"
    /\ conn[h].idx > Len(conn[h].services)

\* C4: when an Up request is answered Ack (and no other supervisor call or
\* tick is in progress), every service the request selected whose child has
\* not exited is recorded Running with pid Some.
C4_UpAckMeansRunning ==
    \A h \in Handlers :
        UpAcked(h) /\ Quiescent =>
            \A i \in DOMAIN conn[h].services :
                LET k == <<conn[h].app_name, conn[h].services[i]>>
                IN (runtimes_contains_key(runtimes, k) /\ children[runtimes[k]].st = "alive")
                    => /\ service_state(k).status = "Running"
                       /\ service_state(k).pid # Nil

\* C6: a child is spawned for a key only when the table holds no handle for
\* the key, and the new child's handle is then the key's one entry; so of
\* several concurrent start_service calls for a key without a runtime, the
\* first to take the lock spawns and the others return without spawning.
C6_OneSpawnPerKey ==
    [][\A h \in Handlers, k \in Keys :
        /\ StartSpawns(h, k) =>
            /\ k \notin DOMAIN runtimes
            /\ runtimes'[k] = next_pid
            /\ \A k2 \in DOMAIN runtimes : runtimes'[k2] = runtimes[k2]
        /\ StartReturnsExisting(h, k) =>
            /\ k \in DOMAIN runtimes
            /\ UNCHANGED <<runtimes, children>>]_vars

\* C6 witness: two start_service calls for one key ran concurrently, both
\* having read the state before any runtime existed; one spawned and holds
\* the lock, the other one waits for it
C6_Witness ==
    \E h1, h2 \in Handlers :
        /\ h1 # h2
        /\ conn[h1].pc = "ss_write"
        /\ conn[h2].pc = "ss_lock"
        /\ conn[h2].pid = Nil
        /\ call_key(conn[h1]) = call_key(conn[h2])
        /\ runtimes_lock = h1
        /\ Cardinality(DOMAIN children) = 1

\* C7: a status changes only along the state machine: to Running by a
\* start_service of the key, to Stopped by a stop_service of the key, to
\* Exited only from Running.
C7_StatusStateMachine ==
    [][\A k \in Keys :
        (has_service(state, k[1], k[2]) /\ has_service(state', k[1], k[2])) =>
            LET old == state.apps[k[1]].services[k[2]].status
                new == state'.apps[k[1]].services[k[2]].status
            IN old # new =>
                \/ new = "Running" /\ \E h \in Handlers : StartReturnsSpawned(h, k)
                \/ new = "Stopped" /\ \E h \in Handlers : StopReturns(h, k)
                \/ new = "Exited" /\ old = "Running"]_vars

\* the child of key k exited by itself with code x while the service was
\* recorded Running, and the tick has not reaped it yet
ExitedByItself(k, x) ==
    /\ has_service(state, k[1], k[2])
    /\ service_state(k).status = "Running"
    /\ runtimes_contains_key(runtimes, k)
    /\ children[runtimes[k]].st = "dead"
    /\ children[runtimes[k]].code = Some(x)

\* no start_service or stop_service call is running for key k
NoCallOn(k) == \A h \in Handlers : ~(InCall(conn[h]) /\ call_key(conn[h]) = k)

\* the exit of the child of key k with code x is on record
ExitRecorded(k, x) ==
    /\ has_service(state, k[1], k[2])
    /\ service_state(k).status = "Exited"
    /\ service_state(k).pid = Nil
    /\ service_state(k).started_at = None
    /\ service_state(k).exit_code = Some(x)
    /\ ~runtimes_contains_key(runtimes, k)

\* C9: if the child of a Running service exits by itself and from then on no
\* start_service or stop_service call targets the service, then with the tick
\* firing the state eventually records Exited, pid None, started_at None and
\* the child's exit code, and the handle is gone from the table.
\* (P /\ []Q => <>R is written in the equivalent form P ~> (R \/ ~Q).)
C9_ExitEventuallyRecorded ==
    \A k \in Keys, x \in ExitCodes :
        ExitedByItself(k, x) ~> (ExitRecorded(k, x) \/ ~NoCallOn(k))

\* C9 witness: the exit of a child is on record, the child is reaped, and no
\* call or tick is in progress
C9_Witness ==
    /\ Quiescent
    /\ \E k \in Keys :
        /\ ExitRecorded(k, 1)
        /\ \A c \in DOMAIN children : children[c].key # k

\* C10: resolve_services with selector All returns every service name of the
\* app exactly once, in the order the compose file declares them.
C10_AllInDeclarationOrder ==
    \A app \in DOMAIN state.apps :
        \A keys \in services_keys(state, app) :
            resolve_services(state, app, All, keys) = Ok(state.apps[app].service_order)

----------------------------------------------------------------------------
(* Resolution and status *)

\* the selector names, by Service or Services, a service the app does not
\* have
NamesUnknown(selector, app) ==
    LET known == IF app \in DOMAIN state.apps
                 THEN DOMAIN state.apps[app].services ELSE {}
    IN \/ selector.tag = "Service" /\ selector.name \notin known
       \/ selector.tag = "Services" /\ \E i \in DOMAIN selector.names :
                selector.names[i] \notin known

\* C11: resolve_services returns AppNotFound for an unregistered app,
\* ServiceNotFound for Service(name) or Services(list) with any name the app
\* does not have, ProfileNotFound for a missing profile, the list as given
\* for a Services list of known names; every name of a returned list exists
\* in app.services.
C11_ResolveServicesErrors ==
    call.fn = "resolve_services" =>
        LET r == call.ret
            app == call.app
            selector == call.selector
        IN IF app \notin DOMAIN state.apps
           THEN r = Err("AppNotFound")
           ELSE /\ NamesUnknown(selector, app) => r = Err("ServiceNotFound")
                /\ (selector.tag = "Services" /\ ~NamesUnknown(selector, app))
                        => r = Ok(selector.names)
                /\ (selector.tag = "Profile"
                        /\ selector.name \notin DOMAIN state.apps[app].profiles)
                        => r = Err("ProfileNotFound")
                /\ r.ok => \A i \in DOMAIN r.value :
                        r.value[i] \in DOMAIN state.apps[app].services

\* C11 witness: with two apps registered, a Services list with a name that
\* only the other app has was refused
C11_Witness ==
    /\ DOMAIN state.apps = {"web", "db"}
    /\ call.fn = "resolve_services"
    /\ call.app = "db"
    /\ call.selector = Services(<<"worker", "api">>)
    /\ call.ret = Err("ServiceNotFound")

\* C12: a Stop, Restart or Start without a file whose selector names an
\* unknown service is answered Error by the step that resolves the selector,
\* and neither that step nor the one that read the request changes the
\* state store, the supervisor table or any child.
C12_UnknownServiceChangesNothing ==
    [][\A h \in Handlers :
        LET c == conn[h]
            c2 == conn'[h]
        IN /\ (c.pc = "idle" /\ c2.pc = "resolve_services" /\ c2.file = None
                    /\ NamesUnknown(c2.selector, c2.app_name))
                => UNCHANGED <<state, runtimes, children>>
           /\ (c.pc = "resolve_services" /\ c.file = None /\ c2 # c
                    /\ NamesUnknown(c.selector, c.app_name))
                => (c2 = Replied /\ UNCHANGED <<state, runtimes, children>>)]_vars

\* C12 witness: with both services running, a Stop naming a known and an
\* unknown service has been read and is about to be resolved
C12_Witness ==
    /\ conn[1].pc = "resolve_services"
    /\ conn[1].kind = "Stop"
    /\ conn[1].selector = Services(<<"api", "ghost">>)
    /\ \A k \in {"web"} \X {"api", "worker"} :
        /\ runtimes_contains_key(runtimes, k)
        /\ service_state(k).status = "Running"

\* C13: resolve_app(None) returns the registered app's name when exactly one
\* app is registered and the error "Multiple apps running, use --app" when
\* none or several are; the call changes no state.
C13_ResolveAppNone ==
    [][(call' # call /\ call'.fn = "resolve_app" /\ call'.app = None) =>
        /\ UNCHANGED <<state, runtimes, children>>
        /\ IF Cardinality(DOMAIN state.apps) = 1
           THEN call'.ret.ok /\ DOMAIN state.apps = {call'.ret.value}
           ELSE call'.ret = Err("Multiple apps running, use --app")]_vars

\* C13 witness: resolve_app(None) was refused with two apps registered
C13_Witness ==
    /\ DOMAIN state.apps = {"web", "db"}
    /\ call.fn = "resolve_app"
    /\ call.app = None
    /\ ~call.ret.ok

\* the snapshot lists every service of the app once, as the state has it
SnapshotOfAll(snapshot) ==
    LET app_state == state.apps[snapshot.app_name]
    IN /\ {snapshot.services[i].name : i \in DOMAIN snapshot.services}
            = DOMAIN app_state.services
       /\ Len(snapshot.services) = Cardinality(DOMAIN app_state.services)
       /\ \A i \in DOMAIN snapshot.services :
            LET svc == snapshot.services[i]
            IN /\ svc.status = app_state.services[svc.name].status
               /\ svc.pid = app_state.services[svc.name].pid
               /\ svc.exit_code = app_state.services[svc.name].exit_code

\* C14: a Status call without an app returns an error when the selector is
\* not All and, when it is All, a snapshot with every registered app once,
\* each with all of its services; the call changes no state.
C14_StatusWithoutApp ==
    [][(call' # call /\ call'.fn = "status") =>
        /\ UNCHANGED <<state, runtimes, children>>
        /\ call'.app = None =>
            IF call'.selector # All
            THEN ~call'.ret.ok
            ELSE /\ call'.ret.ok
                 /\ LET apps == call'.ret.value.apps
                    IN /\ {apps[i].app_name : i \in DOMAIN apps} = DOMAIN state.apps
                       /\ Len(apps) = Cardinality(DOMAIN state.apps)
                       /\ \A i \in DOMAIN apps : SnapshotOfAll(apps[i])]_vars

\* C14 witness: Status without an app and with All returned two apps
C14_Witness ==
    /\ call.fn = "status"
    /\ call.app = None
    /\ call.selector = All
    /\ call.ret.ok
    /\ Len(call.ret.value.apps) = 2

----------------------------------------------------------------------------
(* The log ring buffer *)

Min(a, b) == IF a < b THEN a ELSE b

\* after the N pushes made so far the buffer holds the last min(N, C) of
\* them, in insertion order
HoldsLastPushed ==
    LET n == Len(pushed)
        len == Len(log_buffer.entries)
    IN /\ len = Min(n, log_buffer.capacity)
       /\ len <= log_buffer.capacity
       /\ log_buffer.entries = SubSeq(pushed, n - len + 1, n)

----------------------------------------------------------------------------
(* The log pipeline *)

\* the position of an entry in a sequence that holds it
IndexOf(seq, e) == CHOOSE i \in DOMAIN seq : seq[i] = e

\* the entries the ring buffer of a service holds
buffered(app, service) ==
    IF has_service(state, app, service)
    THEN state.apps[app].services[service].logs.entries
    ELSE <<>>

\* two entries of a buffer that one channel carried are in the buffer in the
\* order in which the channel carried them
SameOrder(entries, tx) ==
    \A i, j \in DOMAIN entries :
        (i < j /\ entries[i] \in Range(tx) /\ entries[j] \in Range(tx))
            => IndexOf(tx, entries[i]) < IndexOf(tx, entries[j])

\* C15: for each service, the entries of its ring buffer are in the order in
\* which its broadcast channel published them, whatever the interleaving of
\* the stdout and stderr reader tasks; an entry is in the buffer only if it
\* was published.
C15_BufferOrderIsPublishOrder ==
    \A app \in DOMAIN state.apps : \A service \in DOMAIN state.apps[app].services :
        /\ Range(buffered(app, service)) \subseteq created
        /\ \A pid \in DOMAIN log_tx : SameOrder(buffered(app, service), log_tx[pid])

\* C15 witness: the buffer of "api" holds a stderr line and a stdout line of
\* one child
C15_Witness ==
    \E pid \in DOMAIN log_tx :
        /\ Len(log_tx[pid]) = 2
        /\ log_tx[pid][1].stream = "Stderr"
        /\ log_tx[pid][2].stream = "Stdout"
        /\ buffered("web", "api") = log_tx[pid]

\* the entries of the LogChunk lines of a service among the lines written
entries_written(out, service) ==
    LET is_chunk(r) == r.tag = "LogChunk" /\ r.chunk.service = service
        lines == SelectSeq(out, is_chunk)
    IN [i \in DOMAIN lines |-> lines[i].chunk.entry]

\* the history of a session as the lines that carry it
history_lines(s) == [i \in DOMAIN s.chunks |-> ResponseLogChunk(s.chunks[i])]

\* the follow sessions whose daemon.logs call succeeded
Following == {h \in Handlers : session[h].follow /\ session[h].pc \in {"stream", "closed"}
                                  /\ (session[h].out = <<>> \/ session[h].out[1].tag # "Error")}

Closed == {h \in Handlers : session[h].pc = "closed"}

\* C17: a Logs request with follow=false is answered by the history chunks
\* and after them exactly one Ack, the last line; when the resolution of the
\* app or of the selector failed, a single Error is the only line written.
C17_HistoryThenAck ==
    \A h \in Closed :
        LET s == session[h] IN
        /\ ~s.follow =>
                \/ s.out = Append(history_lines(s), ResponseAck)
                \/ s.chunks = <<>> /\ Len(s.out) = 1 /\ s.out[1].tag = "Error"
        /\ (\E i \in DOMAIN s.out : s.out[i].tag = "Error") => Len(s.out) = 1

\* C17 witness: a session without follow answered by two history chunks and
\* the Ack
C17_Witness ==
    \E h \in Closed :
        /\ ~session[h].follow
        /\ Len(session[h].chunks) = 2
        /\ Len(session[h].out) = 3
        /\ session[h].out[3] = ResponseAck

\* C18, as stated: a Logs session with follow=true streams until the client
\* disconnects; the daemon ends no such session (one whose daemon.logs call
\* succeeded) while its client is there.
C18_StreamsUntilDisconnect ==
    \A h \in Following : session[h].pc = "closed" => session[h].client = "gone"

----------------------------------------------------------------------------
(* LogBuffer::tail *)

\* C21: tail(n) returns the last min(n, len) entries of the buffer in their
\* insertion order and leaves the buffer as it was; with n > len that is
\* every entry, with n = 0 none.
C21_TailReturnsLast ==
    [][(call' # call /\ call'.fn = "tail") =>
        LET entries == log_buffer.entries
            len == Len(entries)
            ret == call'.ret
            n == call'.count
        IN /\ log_buffer' = log_buffer
           /\ Len(ret) = Min(n, len)
           /\ \A i \in DOMAIN ret : ret[i] = entries[len - Len(ret) + i]
           /\ n > len => ret = entries
           /\ n = 0 => ret = <<>>]_vars

\* C21 witness: tail(2) of a buffer that holds three entries
C21_Witness ==
    /\ call = [fn |-> "tail", count |-> 2, ret |-> <<"b", "a">>]
    /\ log_buffer.entries = <<"a", "b", "a">>

----------------------------------------------------------------------------
(* Daemon::restart *)

\* task h serves a Restart request and is in the pass named
Restarting(h, pass) == conn[h].kind = "Restart" /\ conn[h].pc # "resolve_services"
                           /\ conn[h].pass = pass

\* task h served a Restart request and is about to write Ack
RestartAcked(h) ==
    /\ Restarting(h, "start")
    /\ conn[h].pc = "loop"
    /\ conn[h].idx > Len(conn[h].services)

\* C22, as stated: restart makes two passes: no child is spawned during the
\* stop pass, and when the start pass begins stop_service has removed the
\* runtime every selected service had; when Restart is answered Ack, a child
\* was spawned during the request for every selected service, the service
\* holds no runtime from before the request, and it is recorded Running with
\* the new pid unless that child has exited since.
C22_RestartTwoPasses ==
    \A h \in Handlers :
        LET c == conn[h]
            selected == {<<c.app_name, c.services[i]>> : i \in DOMAIN c.services}
        IN /\ Restarting(h, "stop") => next_pid = c.first_pid
           /\ Restarting(h, "start") =>
                \A k \in selected :
                    runtimes_contains_key(runtimes, k) => runtimes[k] >= c.first_pid
           /\ RestartAcked(h) =>
                /\ next_pid = c.first_pid + Len(c.services)
                /\ \A k \in selected :
                    (runtimes_contains_key(runtimes, k) /\ children[runtimes[k]].st = "alive")
                        => /\ service_state(k).status = "Running"
                           /\ service_state(k).pid = Some(runtimes[k])

----------------------------------------------------------------------------
(* Daemon::start *)

\* the services a selector resolves to in a state, as a set
resolves_to(st, app, selector) ==
    LET r == resolve_services(st, app, selector,
                CHOOSE keys \in services_keys(st, app) : TRUE)
    IN IF r.ok THEN Range(r.value) ELSE {}

\* what the frame of a Start request is about
frame_of(svc) ==
    [status |-> svc.status, pid |-> svc.pid, started_at |-> svc.started_at,
     logs |-> svc.logs]

\* the step leaves the services of the app outside targets as they are and
\* spawns no child for them
OthersUnchanged(app, targets) ==
    /\ \A service \in ServiceNames \ targets :
        has_service(state, app, service) =>
            /\ has_service(state', app, service)
            /\ frame_of(state'.apps[app].services[service])
                = frame_of(state.apps[app].services[service])
    /\ \A c \in DOMAIN children' \ DOMAIN children : children'[c].key[2] \in targets

\* C23, as stated: a Start request, with or without a manifest file, whose
\* selector resolves starts only the services the selector resolves to:
\* no step of its handler, from the reading of the request to the response,
\* changes the status, pid, started_at or logs of another service of the app
\* or spawns a child for it.
C23_StartFrame ==
    [][\A h \in Handlers :
        /\ (conn[h].pc = "idle" /\ conn'[h].kind = "Start") =>
                LET app == conn'[h].app_name
                    targets == resolves_to(state', app, conn'[h].selector)
                IN targets # {} => OthersUnchanged(app, targets)
        /\ (conn[h].kind = "Start" /\ conn[h].pc # "resolve_services"
                /\ conn'[h] # conn[h]) =>
                OthersUnchanged(conn[h].app_name, Range(conn[h].services))]_vars


-----------------------------------------------------------------------------
(* ensure_daemon *)

\* ensure_daemon has returned
EnsureDone == client.pc = "done"

\* C24: ensure_daemon always returns; it returns Ok only after a ping that
\* succeeded; when its first ping succeeds it spawns no daemon and removes no
\* socket; it spawns at most one daemon, and only after seeing no daemon
\* process; after the first ping it pings at most 15 more times, and it fails
\* with DaemonNotRunning only after all of those failed.
C24_EnsureDaemonTerminates ==
    /\ [](client.pc # "none" =>
            /\ (EnsureDone /\ client.ret.ok) => client.ping_ok
            /\ client.first_ok => (client.spawned = 0 /\ ~client.removed /\ EnsureDone)
            /\ client.spawned <= 1
            /\ client.spawned = 1 => client.running = Some(FALSE)
            /\ client.pings <= 1 + DAEMON_RETRY_ATTEMPTS
            /\ (EnsureDone /\ client.ret = Err("DaemonNotRunning")) =>
                    (client.pings = 1 + DAEMON_RETRY_ATTEMPTS /\ ~client.ping_ok))
    /\ <>EnsureDone

\* a daemon was spawned, all fifteen retries failed and the call gave up
C24_Witness ==
    /\ EnsureDone
    /\ client.ret = Err("DaemonNotRunning")
    /\ client.spawned = 1
    /\ client.removed
    /\ client.pings = 16


-----------------------------------------------------------------------------
(* The client's stream_logs *)

\* the chunks of the LogChunk lines of a sequence of lines, in its order
RECURSIVE chunks_of(_)
chunks_of(lines) ==
    IF lines = <<>> THEN <<>>
    ELSE IF Head(lines).tag = "LogChunk"
         THEN <<Head(lines).chunk>> \o chunks_of(Tail(lines))
         ELSE chunks_of(Tail(lines))

\* C25: the callback has been given the chunk of every LogChunk line read so
\* far, in the order the lines arrived; an Ack is the last line read and makes
\* stream_logs return Ok, an Error is the last line read and makes it return
\* Err with the message; once it returned, nothing more is read or delivered.
C25_ClientStreamLogs ==
    /\ [](client.pc \in {"read_line", "done"} /\ "received" \in DOMAIN client =>
            /\ client.on_chunk = chunks_of(client.received)
            /\ \A i \in 1..Len(client.received) :
                /\ client.received[i].tag = "Ack" =>
                    (i = Len(client.received) /\ client.pc = "done" /\ client.ret = Ok("unit"))
                /\ client.received[i].tag = "Error" =>
                    (i = Len(client.received) /\ client.pc = "done"
                        /\ client.ret = Err(client.received[i].msg)))
    /\ [][client.pc = "done" => client' = client]_vars

\* two chunks were delivered in order and the Ack ended the stream
C25_Witness ==
    /\ client.pc = "done"
    /\ client.ret = Ok("unit")
    /\ client.received = <<ResponseLogChunk("b"), ResponseLogChunk("a"), ResponseAck>>
    /\ client.on_chunk = <<"b", "a">>


-----------------------------------------------------------------------------
(* handle_connection: one request, one response *)

\* the response a request gets when the daemon's call returns Ok
success_tag(kind) ==
    CASE kind = "Status" -> "StatusSnapshot"
      [] kind = "Profiles" -> "ProfilesList"
      [] OTHER -> "Ack"

\* C26: a connection task reads one request; while it works on it nothing has
\* been written back, and when it has returned exactly one line was written:
\* the success response of the request's kind (Ack for DashAttach, Up, Start,
\* Stop and Restart, StatusSnapshot for Status, ProfilesList for Profiles) or
\* an Error, never two lines.
C26_OneRequestOneResponse ==
    client.pc = "peers" =>
        \A h \in Handlers :
            client.request[h] # None =>
                IF conn[h].pc = "idle"
                THEN /\ Len(client.lines[h]) = 1
                     /\ client.lines[h][1].tag \in {success_tag(client.request[h]), "Error"}
                ELSE /\ client.lines[h] = <<>>
                     /\ conn[h].kind = client.request[h]

\* a Restart went through both passes and was answered with the Ack
C26_Witness ==
    /\ client.pc = "peers"
    /\ client.request[1] = "Restart"
    /\ conn[1].pc = "idle"
    /\ client.lines[1] = <<ResponseAck>>
    /\ children # <<>>


-----------------------------------------------------------------------------
(* handle_connection: a line that is not a request *)

\* the last connection of task h brought no request
Rejected(h) == client.pc = "peers" /\ client.bad[h] /\ client.request[h] = None

\* C27: a connection that closes without a line, or sends a line that is not
\* a request, is written nothing and changes nothing the daemon holds (the
\* catalog, the runtime table, the children, the other tasks, the tick); the
\* daemon goes on serving: the next connection's request can be read and
\* answered.
C27_BadLineIsDropped ==
    /\ [](\A h \in Handlers : Rejected(h) =>
            /\ client.lines[h] = <<>>
            /\ conn[h].pc = "idle"
            /\ ENABLED Query(h, [kind |-> "DashAttach"])
            /\ \A req \in ReplyRequests : ENABLED (Register(h, req) \/ ResolveApp(h, req)))
    /\ [][\A h \in Handlers : (Rejected(h)' /\ client' # client) =>
            UNCHANGED <<state, runtimes, runtimes_lock, children, next_pid, conn, tick>>]_vars

\* after an invalid line on an earlier connection, a running daemon answered
\* a Status request with its snapshot
C27_Witness ==
    /\ client.pc = "peers"
    /\ client.bad[1]
    /\ client.request[1] = "Status"
    /\ client.lines[1] # <<>>
    /\ client.lines[1][1].tag = "StatusSnapshot"
    /\ children # <<>>


-----------------------------------------------------------------------------
(* A client that leaves a follow session *)

\* the forwarding tasks of the session of connection h that are still running
Forwarders(h) == {i \in DOMAIN session[h].subs : session[h].subs[i].live}

\* C28, as stated: once the client of a follow session is gone, the writer
\* loop returns and every forwarding task of the session ends, whether or not
\* the followed service stops; the disconnect leaves the catalog as it was.
C28_DisconnectEndsSession ==
    /\ \A h \in Handlers :
        (session[h].follow /\ session[h].client = "gone")
            ~> (session[h].pc = "closed" /\ Forwarders(h) = {})
    /\ [][\A h \in Handlers :
            (session[h].client = "open" /\ session'[h].client = "gone")
                => UNCHANGED state]_vars


-----------------------------------------------------------------------------
(* The state a daemon starts from *)

\* C29, as stated: the daemon that has just been constructed holds what
\* state.json held (the apps and, per service, status, pid, started_at and
\* exit code) with empty logs, and the empty state when there is no file.
C29_StartsFromPersistedState ==
    (call.fn = "run_daemon" /\ call.pc = "serve") => state = load(call.state_json)


-----------------------------------------------------------------------------
(* validate_compose *)

\* the names declared by a manifest are non-empty and pairwise distinct, and
\* its profiles list declared names only
WellFormed(compose) ==
    /\ compose.app_name # ""
    /\ \A i \in DOMAIN compose.services : compose.services[i] # ""
    /\ \A i, j \in DOMAIN compose.services :
            i # j => compose.services[i] # compose.services[j]
    /\ \A p \in DOMAIN compose.profiles : \A i \in DOMAIN compose.profiles[p] :
            compose.profiles[p][i] \in Range(compose.services)

\* C30: a manifest the validator accepts has a non-empty app_name, non-empty
\* and pairwise distinct service names, and profiles that name declared
\* services only; and in every app of the catalog every name of every
\* profile's list is a service of the app.
C30_AcceptedManifests ==
    /\ (call.fn = "load_compose" /\ call.ret.ok) => WellFormed(call.ret.value)
    /\ \A a \in DOMAIN state.apps :
        \A p \in DOMAIN state.apps[a].profiles :
            \A i \in DOMAIN state.apps[a].profiles[p] :
                state.apps[a].profiles[p][i] \in DOMAIN state.apps[a].services

\* a manifest with two services and a profile naming one of them twice was
\* accepted and registered
C30_Witness ==
    /\ call.fn = "load_compose"
    /\ call.ret.ok
    /\ Len(call.ret.value.services) = 2
    /\ call.ret.value.profiles = ("backend" :> <<"api", "api">>)
    /\ "web" \in DOMAIN state.apps
    /\ state.apps["web"].profiles = call.ret.value.profiles


-----------------------------------------------------------------------------
(* The order of the locks *)

\* task t holds a guard of the state RwLock
HoldsState(t) == locks.held[t] \cap {"state.read", "state.write"} # {}

\* C31: in a refresh the table lock is taken first and the sampler lock
\* second, and both are released before the state write guard is asked for:
\* the tick never holds the table lock (or the sampler lock) while it waits
\* for the state guard or holds it.
C31_RefreshLockOrder ==
    locks.pc = "locks" =>
        /\ (waits_for("tick", "system") \/ "system" \in locks.held["tick"])
                => "runtimes" \in locks.held["tick"]
        /\ (waits_for("tick", "state") \/ HoldsState("tick"))
                => locks.held["tick"] \cap {"runtimes", "system"} = {}

\* the tick waits for the state guard, holding nothing, behind a connection
\* task that took the table lock after the tick released it
C31_Witness ==
    /\ locks.pc = "locks"
    /\ locks.queue["state"] = <<"conn1", "tick">>
    /\ locks.held["conn1"] = {"runtimes"}
    /\ locks.held["tick"] = {}
    /\ "state.write" \in locks.held["reader"]


\* task t waits for a lock
Waiting(t) == \E r \in Resources : waits_for(t, r)

\* C32: no task waits for the table lock while it holds a guard of the
\* state lock; whenever tasks wait, some task in a call can take its next
\* step, so that no set of tasks waits for each other; and every request for
\* a lock is granted in the end.
C32_NoDeadlock ==
    /\ [](locks.pc = "locks" =>
            /\ \A t \in LockTasks : waits_for(t, "runtimes") => ~HoldsState(t)
            /\ (\E t \in LockTasks : Waiting(t)) =>
                    \E u \in LockTasks : ENABLED LockSteps(u))
    /\ \A t \in LockTasks : Waiting(t) ~> ~Waiting(t)

\* both connection tasks and the tick wait at once: one connection task
\* holds the table lock and waits for the state guard a reader holds, the
\* other and the tick wait for the table lock
C32_Witness ==
    /\ locks.pc = "locks"
    /\ "state.write" \in locks.held["reader"]
    /\ locks.held["conn1"] = {"runtimes"}
    /\ waits_for("conn1", "state")
    /\ waits_for("conn2", "runtimes")
    /\ waits_for("tick", "runtimes")


-----------------------------------------------------------------------------
(* The tick against a start of the same key *)

\* C33: when the tick applies its updates, a service whose table entry is a
\* child started since the reap, recorded Running with that child's pid,
\* keeps its status and pid: an Exited update is applied only to the child
\* that was reaped.
C33_ExitedOnlyForReapedChild ==
    [][RefreshApply =>
        \A k \in Keys :
            (/\ has_service(state, k[1], k[2])
             /\ runtimes_contains_key(runtimes, k)
             /\ service_state(k).status = "Running"
             /\ service_state(k).pid = Some(runtimes[k]))
            => /\ state'.apps[k[1]].services[k[2]].status = "Running"
               /\ state'.apps[k[1]].services[k[2]].pid = Some(runtimes[k])]_vars


-----------------------------------------------------------------------------
(* Two clients bringing the daemon up *)

\* C34: a starting daemon removes a stale socket file only: no step takes
\* the socket file away from a daemon that is listening on it; and of two
\* clients in ensure_daemon at once, at most one spawns a daemon and at most
\* one daemon serves.
C34_OneDaemon ==
    /\ [](client.pc = "race" =>
            /\ Cardinality({d \in Clients : client.daemon[d] # "none"}) <= 1
            /\ Cardinality({d \in Clients : client.daemon[d] = "listening"}) <= 1)
    /\ [][(client.pc = "race" /\ serving(client)) => client'.socket = client.socket]_vars


-----------------------------------------------------------------------------
(* A start_service that fails *)

\* start_service of task h returns an error: the service is not in the
\* state, or the spawn failed
StartFails(h) == (StartRead(h) \/ StartLock(h)) /\ conn'[h] = Replied

\* C35: a start_service that fails is answered with an Error, puts no entry
\* into the table, leaves the state (status, pid, started_at and exit_code
\* of every service) as it was and leaves the table lock free.
C35_FailedStartChangesNothing ==
    [][\A h \in Handlers :
        StartFails(h) =>
            /\ runtimes' = runtimes
            /\ state' = state
            /\ runtimes_lock' = 0
            /\ client.pc = "peers" =>
                /\ Len(client'.lines[h]) = 1
                /\ client'.lines[h][1].tag = "Error"]_vars

\* a start_service of a service the app does not have returned its error:
\* the app's service api keeps its child, its pid and its status
C35_Witness ==
    /\ client.pc = "peers"
    /\ client.request[1] = "Start"
    /\ client.lines[1] = <<ResponseError("ServiceNotFound")>>
    /\ conn[1].pc = "idle"
    /\ has_service(state, "web", "api")
    /\ ~has_service(state, "web", "nope")
    /\ service_state(<<"web", "api">>).status = "Running"
    /\ DOMAIN runtimes = {<<"web", "api">>}
    /\ runtimes_lock = 0


-----------------------------------------------------------------------------
(* A follower that lags *)

\* C36: a forwarder whose receiver lagged keeps running, and what it passes
\* on stays in the order of publication: it loses the overwritten entries
\* only.
C36_LaggedForwarderKeepsRunning ==
    call.fn = "forwarder" =>
        /\ call.lagged => call.live
        /\ call.delivered < call.next


-----------------------------------------------------------------------------
(* A follow session: what it delivers and what it misses *)

\* the entries of the lines a follow session wrote after its history
live_entries(s) ==
    {s.out[i].chunk.entry : i \in (Len(s.chunks) + 1)..Len(s.out)}

\* the position in its channel at which subscription i of the session began:
\* the receiver's position less the entries it has passed on
subscribed_at(s, i) ==
    s.subs[i].next - Cardinality(live_entries(s) \cap Range(sent(s.subs[i].pid)))

\* the n-th entry of the channel of child pid was published after the
\* session subscribed: on the channel subscribed to at or behind the place
\* the subscription began, or on the channel of a child started later
after_subscription(s, pid, n) ==
    \E i \in DOMAIN s.subs :
        \/ pid = s.subs[i].pid /\ n >= subscribed_at(s, i)
        \/ pid > s.subs[i].pid

\* the n-th entry of the channel of child pid waits for a running forwarder
\* of the session
pending(s, pid, n) ==
    \E i \in DOMAIN s.subs :
        s.subs[i].live /\ s.subs[i].pid = pid /\ n >= s.subs[i].next

\* C37: in a follow session that streams, no line is written twice; every
\* entry of the history was published before the session subscribed, so that
\* no live line repeats one of the history; and the session misses nothing
\* that was published after it subscribed: such an entry is delivered or
\* waits for a forwarder, so that what is missed lies between the snapshot
\* and the subscription.
C37_FollowNoDuplicateNoGap ==
    \A h \in Following :
        LET s == session[h]
            history == {s.chunks[i].entry : i \in DOMAIN s.chunks}
        IN s.pc = "stream" =>
            /\ \A i, j \in DOMAIN s.out : i # j => s.out[i] # s.out[j]
            /\ \A i \in DOMAIN s.subs : \A n \in DOMAIN sent(s.subs[i].pid) :
                    sent(s.subs[i].pid)[n] \in history => n < subscribed_at(s, i)
            /\ live_entries(s) \cap history = {}
            /\ \A pid \in DOMAIN log_tx : \A n \in DOMAIN log_tx[pid] :
                    after_subscription(s, pid, n) =>
                        \/ log_tx[pid][n] \in live_entries(s)
                        \/ pending(s, pid, n)


-----------------------------------------------------------------------------
(* The target of the SIGKILL *)

\* C38: whenever start_service or stop_service sends the SIGKILL, the pid it
\* read from the state is the pid of a child of this supervisor that has not
\* been reaped (a process or a zombie the supervisor still owns), whatever
\* the tick did since the read.
C38_KillOnlyUnreapedChild ==
    [][\A h \in Handlers :
        (StartKill(h) \/ StopKill(h)) => conn[h].pid[1] \in DOMAIN children]_vars


-----------------------------------------------------------------------------
(* The four fields of a service *)

\* C39: in every state of the store and for every service, the pid is Some
\* exactly if the status is Running, started_at is Some exactly if the
\* status is Running, and an exit code is recorded only if the status is
\* Exited.
C39_FieldsAgree ==
    \A app \in DOMAIN state.apps : \A service \in DOMAIN state.apps[app].services :
        LET s == state.apps[app].services[service]
        IN /\ s.pid # Nil <=> s.status = "Running"
           /\ s.started_at # None <=> s.status = "Running"
           /\ s.exit_code # Nil => s.status = "Exited"

\* one service runs, with pid and start time, while the other one exited
\* with the code 1 and has neither pid nor start time
C39_Witness ==
    \E k1, k2 \in Registered :
        /\ service_state(k1).status = "Running"
        /\ service_state(k1).pid # Nil
        /\ service_state(k1).started_at # None
        /\ service_state(k2).status = "Exited"
        /\ service_state(k2).exit_code = Some(1)
        /\ service_state(k2).pid = Nil


-----------------------------------------------------------------------------
(* A request with a manifest whose selector does not resolve *)

\* task h reads an Up or a Start with a file whose selector will not
\* resolve: the profile is not in the manifest, or a name is not a service
\* of it
RegistersInVain(h) ==
    \E req \in Requests :
        /\ Register(h, req)
        /\ \A keys \in services_keys(state', conn'[h].app_name) :
            ~resolve_services(state', conn'[h].app_name, conn'[h].selector, keys).ok

\* C40: an Up or a Start with a file that is answered Error because its
\* selector does not resolve leaves the catalog as it was: an app of that
\* name that was registered keeps the status, pid, started_at and logs of
\* its services.
C40_FailedUpKeepsCatalog ==
    [][\A h \in Handlers : RegistersInVain(h) => state' = state]_vars

=============================================================================
